---- MODULE Spec2Model ----
(***************************************************************************)
(* Duplicate detection of uploaded institution records against the CLARISA *)
(* registry: the normalisation and matching functions, the classifier and  *)
(* the upload handler that scans the registry for every uploaded record.   *)
(*                                                                         *)
(* Strings are TLA+ strings; a character is a string of length 1.  Scores  *)
(* (Python floats in [0,1]) are integers in units of 1/Scale, rounded down.*)
(***************************************************************************)
EXTENDS Integers, Sequences, FiniteSets, TLC

\* ------------------------------------------------------------------------
\* Numbers
\* ------------------------------------------------------------------------

\* one unit of score is 1/Scale
Scale == 1000000

\* the float n/100
Pct(n) == n * (Scale \div 100)

Min(a, b) == IF a <= b THEN a ELSE b

Max(a, b) == IF a >= b THEN a ELSE b

\* round(x, 4) on a score
Round4(x) == ((x + (Scale \div 20000)) \div (Scale \div 10000)) * (Scale \div 10000)

\* ------------------------------------------------------------------------
\* Characters and Python's str methods
\* ------------------------------------------------------------------------

Chr(s, i) == SubSeq(s, i, i)

AsciiUpper == "ABCDEFGHIJKLMNOPQRSTUVWXYZ"

AsciiLower == "abcdefghijklmnopqrstuvwxyz"

\* the cased letters of the model's alphabet: ASCII and e-acute (U+00C9, U+00E9)
UpperAlpha == AsciiUpper \o "É"

LowerAlpha == AsciiLower \o "é"

\* the combining acute accent U+0301, of Unicode category Mn (written here as the
\* ASCII circumflex, which no input of the model uses for itself)
CombiningAcute == "^"

Digits == "0123456789"

InStr(c, alphabet) == \E i \in 1..Len(alphabet) : Chr(alphabet, i) = c

IndexIn(c, alphabet) == CHOOSE i \in 1..Len(alphabet) : Chr(alphabet, i) = c

\* str.lower() and str.upper() on one character
LowerChr(c) == IF InStr(c, UpperAlpha) THEN Chr(LowerAlpha, IndexIn(c, UpperAlpha)) ELSE c

UpperChr(c) == IF InStr(c, LowerAlpha) THEN Chr(UpperAlpha, IndexIn(c, LowerAlpha)) ELSE c

IsSpace(c) == c \in {" ", "\t", "\n"}

IsAlpha(c) == InStr(c, UpperAlpha) \/ InStr(c, LowerAlpha)

\* the character maps halve the string, which keeps the recursion shallow

RECURSIVE lower(_)
lower(s) ==
    IF s = "" THEN ""
    ELSE IF Len(s) = 1 THEN LowerChr(s)
    ELSE lower(SubSeq(s, 1, Len(s) \div 2)) \o lower(SubSeq(s, Len(s) \div 2 + 1, Len(s)))

RECURSIVE upper(_)
upper(s) ==
    IF s = "" THEN ""
    ELSE IF Len(s) = 1 THEN UpperChr(s)
    ELSE upper(SubSeq(s, 1, Len(s) \div 2)) \o upper(SubSeq(s, Len(s) \div 2 + 1, Len(s)))

RECURSIVE lstrip(_)
lstrip(s) == IF s # "" /\ IsSpace(Chr(s, 1)) THEN lstrip(Tail(s)) ELSE s

RECURSIVE rstrip(_)
rstrip(s) ==
    IF s # "" /\ IsSpace(Chr(s, Len(s))) THEN rstrip(SubSeq(s, 1, Len(s) - 1)) ELSE s

strip(s) == rstrip(lstrip(s))

\* str.split(): the maximal runs of non-whitespace characters, in order
RECURSIVE split(_)
split(s) ==
    LET t == lstrip(s)
        ends == {i \in 1..Len(t) : IsSpace(Chr(t, i))}
        n == IF ends = {} THEN Len(t) + 1 ELSE CHOOSE i \in ends : \A j \in ends : i <= j
    IN IF t = "" THEN << >>
       ELSE <<SubSeq(t, 1, n - 1)>> \o split(SubSeq(t, n, Len(t)))

\* x in s, for strings
Contains(s, x) == \E i \in 1..(Len(s) - Len(x) + 1) : SubSeq(s, i, i + Len(x) - 1) = x

Range(f) == {f[i] : i \in DOMAIN f}

\* ------------------------------------------------------------------------
\* services/normalization.py
\* ------------------------------------------------------------------------

\* unicodedata.normalize("NFD", c) on one character
NFDChr(c) == IF c = "é" THEN "e" \o CombiningAcute
             ELSE IF c = "É" THEN "E" \o CombiningAcute
             ELSE c

RECURSIVE NFD(_)
NFD(s) ==
    IF s = "" THEN ""
    ELSE IF Len(s) = 1 THEN NFDChr(s)
    ELSE NFD(SubSeq(s, 1, Len(s) \div 2)) \o NFD(SubSeq(s, Len(s) \div 2 + 1, Len(s)))

\* unicodedata.category(c) = "Mn"
IsMn(c) == c = CombiningAcute

RECURSIVE DropMn(_)
DropMn(s) ==
    IF s = "" THEN ""
    ELSE IF Len(s) = 1 THEN (IF IsMn(s) THEN "" ELSE s)
    ELSE DropMn(SubSeq(s, 1, Len(s) \div 2)) \o DropMn(SubSeq(s, Len(s) \div 2 + 1, Len(s)))

\* re.sub(r"\s+", " ", s)
RECURSIVE CollapseSpaces(_)
CollapseSpaces(s) ==
    IF s = "" THEN ""
    ELSE IF IsSpace(Chr(s, 1))
         THEN " " \o CollapseSpaces(lstrip(s))
         ELSE Chr(s, 1) \o CollapseSpaces(Tail(s))

\* None and "" are both the empty string
normalize_text(text) ==
    IF text = "" THEN ""
    ELSE CollapseSpaces(DropMn(NFD(strip(lower(text)))))

\* ------------------------------------------------------------------------
\* services/enhanced_normalizer.py
\* ------------------------------------------------------------------------

\* a character of the class [\s\-\.,;:]
IsEdgePunctuation(c) == IsSpace(c) \/ c \in {"-", ".", ",", ";", ":"}

\* re.sub(r"^[\s\-\.,;:]*|[\s\-\.,;:]*$", "", s)
RECURSIVE StripEdgePunctuation(_)
StripEdgePunctuation(s) ==
    IF s = "" THEN ""
    ELSE IF IsEdgePunctuation(Chr(s, 1)) THEN StripEdgePunctuation(Tail(s))
    ELSE IF IsEdgePunctuation(Chr(s, Len(s)))
         THEN StripEdgePunctuation(SubSeq(s, 1, Len(s) - 1))
    ELSE s

\* EnhancedNormalizer.normalize_text(text, remove_diacritics)
EnhancedNormalizer_normalize_text(text, remove_diacritics) ==
    IF text = "" THEN ""
    ELSE LET decomposed == NFD(strip(lower(text)))
             unmarked == IF remove_diacritics THEN DropMn(decomposed) ELSE decomposed
         IN StripEdgePunctuation(strip(CollapseSpaces(unmarked)))

\* ------------------------------------------------------------------------
\* services/normalization.py, continued
\* ------------------------------------------------------------------------

\* re.sub(r"[^a-z0-9]", "", s)
RECURSIVE KeepAlnum(_)
KeepAlnum(s) ==
    IF s = "" THEN ""
    ELSE IF Len(s) = 1 THEN (IF InStr(s, AsciiLower) \/ InStr(s, Digits) THEN s ELSE "")
    ELSE KeepAlnum(SubSeq(s, 1, Len(s) \div 2)) \o KeepAlnum(SubSeq(s, Len(s) \div 2 + 1, Len(s)))

normalize_acronym(acronym) == IF acronym = "" THEN "" ELSE KeepAlnum(lower(acronym))

\* str.rstrip("/")
RECURSIVE RStripSlash(_)
RStripSlash(s) ==
    IF s # "" /\ Chr(s, Len(s)) = "/" THEN RStripSlash(SubSeq(s, 1, Len(s) - 1)) ELSE s

StartsWith(s, p) == Len(s) >= Len(p) /\ SubSeq(s, 1, Len(p)) = p

\* str.replace(old, new): every non-overlapping occurrence, left to right
RECURSIVE Replace(_, _, _)
Replace(s, old, new) ==
    IF Len(s) < Len(old) THEN s
    ELSE IF StartsWith(s, old)
         THEN new \o Replace(SubSeq(s, Len(old) + 1, Len(s)), old, new)
         ELSE Chr(s, 1) \o Replace(Tail(s), old, new)

\* str.replace(old, new, 1): the first occurrence only
RECURSIVE ReplaceFirst(_, _, _)
ReplaceFirst(s, old, new) ==
    IF Len(s) < Len(old) THEN s
    ELSE IF StartsWith(s, old)
         THEN new \o SubSeq(s, Len(old) + 1, Len(s))
         ELSE Chr(s, 1) \o ReplaceFirst(Tail(s), old, new)

\* normalize_url that leaves the www. prefix where it finds it
normalize_url_KeepsWww(url) ==
    IF url = "" THEN ""
    ELSE LET u1 == RStripSlash(strip(lower(url)))
             u2 == IF StartsWith(u1, "http://") \/ StartsWith(u1, "https://")
                   THEN u1 ELSE "https://" \o u1
         IN Replace(u2, "http://", "https://")

normalize_url(url) ==
    IF url = "" THEN ""
    ELSE LET u1 == RStripSlash(strip(lower(url)))
             u2 == IF StartsWith(u1, "http://") \/ StartsWith(u1, "https://")
                   THEN u1 ELSE "https://" \o u1
             u3 == Replace(u2, "http://", "https://")
             u4 == Replace(u3, "https://www.", "https://")
         IN IF Contains(u4, "https://") /\ ~Contains(u4, "www.")
            THEN Replace(ReplaceFirst(u4, "https://", "https://www."),
                         "https://www.", "https://")
            ELSE u4

\* ------------------------------------------------------------------------
\* services/advanced_matching.py
\* ------------------------------------------------------------------------

\* the acronym knowledge base, in the dict's order: <<acronym, expansions>>
ACRONYM_DATABASE ==
    << <<"cimmyt", <<"international maize and wheat improvement center",
                     "centro internacional de mejoramiento de maiz y trigo">> >>,
       <<"icrisat", <<"international crops research institute for the semi-arid tropics">> >>,
       <<"irri", <<"international rice research institute">> >>,
       <<"ciat", <<"international center for tropical agriculture",
                   "centro internacional de agricultura tropical">> >>,
       <<"icraf", <<"world agroforestry centre",
                    "international council for research in agroforestry">> >>,
       <<"worldfish", <<"worldfish centre", "world fish center">> >>,
       <<"bioversity", <<"bioversity international">> >>,
       <<"cgiar", <<"consultative group on international agricultural research">> >>,
       <<"fao", <<"food and agriculture organization">> >>,
       <<"undp", <<"united nations development programme">> >>,
       <<"unep", <<"united nations environment programme">> >>,
       <<"icarda", <<"international center for agricultural research in the dry areas">> >>,
       <<"wur", <<"wageningen university", "wageningen university and research">> >>,
       <<"eth", <<"swiss federal institute of technology", "eth zurich">> >>,
       <<"cornell", <<"cornell university">> >>,
       <<"berkeley", <<"university of california", "uc berkeley">> >> >>

\* the expansions of every database acronym that contains, or is contained in, the
\* normalized acronym
get_acronym_expansions(acronym) ==
    LET normalized_acronym == lower(normalize_acronym(acronym))
    IN UNION { Range(ACRONYM_DATABASE[k][2]) :
                 k \in { i \in DOMAIN ACRONYM_DATABASE :
                           \/ Contains(normalized_acronym, ACRONYM_DATABASE[i][1])
                           \/ Contains(ACRONYM_DATABASE[i][1], normalized_acronym) } }

\* difflib.SequenceMatcher.find_longest_match without junk: the longest block
\* a[i..i+k-1] = b[j..j+k-1], the earliest in a and then the earliest in b; <<i, j, k>>
find_longest_match(a, b) ==
    LET la == Len(a)
        lb == Len(b)
        RECURSIVE Run(_, _)
        Run(i, j) == IF i > la \/ j > lb THEN 0
                     ELSE IF Chr(a, i) # Chr(b, j) THEN 0
                     ELSE 1 + Run(i + 1, j + 1)
        blocks == {<<p[1], p[2], Run(p[1], p[2])>> :
                     p \in {q \in (1..la) \X (1..lb) : Chr(a, q[1]) = Chr(b, q[2])}}
    IN IF blocks = {} THEN <<1, 1, 0>>
       ELSE CHOOSE m \in blocks :
                \A n \in blocks :
                    \/ n[3] < m[3]
                    \/ n[3] = m[3] /\ m[1] < n[1]
                    \/ n[3] = m[3] /\ m[1] = n[1] /\ m[2] <= n[2]

\* the number of matched characters: the sizes of get_matching_blocks, summed
RECURSIVE matching_chars(_, _)
matching_chars(a, b) ==
    IF a = "" \/ b = "" THEN 0
    ELSE LET m == find_longest_match(a, b)
         IN IF m[3] = 0 THEN 0
            ELSE m[3]
                 + matching_chars(SubSeq(a, 1, m[1] - 1), SubSeq(b, 1, m[2] - 1))
                 + matching_chars(SubSeq(a, m[1] + m[3], Len(a)),
                                  SubSeq(b, m[2] + m[3], Len(b)))

\* SequenceMatcher(None, a, b).ratio() = 2.0 * matches / (len(a) + len(b)), 1.0 for two
\* empty strings
ratio(a, b) ==
    IF Len(a) + Len(b) = 0 THEN Scale
    ELSE (2 * matching_chars(a, b) * Scale) \div (Len(a) + Len(b))

fuzzy_match_score(str1, str2, threshold) ==
    IF str1 = "" \/ str2 = "" THEN [match |-> FALSE, score |-> 0]
    ELSE LET r == ratio(normalize_text(str1), normalize_text(str2))
         IN [match |-> r >= threshold, score |-> r]

\* re.findall(r'\(([^)]+)\)|\[([^\]]+)\]', s): the group that matched, per match
RECURSIVE findall_bracketed(_)
findall_bracketed(s) ==
    IF s = "" THEN << >>
    ELSE LET open == Chr(s, 1)
             close == IF open = "(" THEN ")" ELSE "]"
             closes == {i \in 2..Len(s) : Chr(s, i) = close}
             first == CHOOSE i \in closes : \A j \in closes : i <= j
         IN IF open \in {"(", "["} /\ closes # {} /\ first >= 3
            THEN <<SubSeq(s, 2, first - 1)>> \o findall_bracketed(SubSeq(s, first + 1, Len(s)))
            ELSE findall_bracketed(Tail(s))

\* "".join(w[0].upper() for w in words if w and w[0].isalpha())
RECURSIVE first_letters(_)
first_letters(words) ==
    IF words = << >> THEN ""
    ELSE (IF IsAlpha(Chr(Head(words), 1)) THEN UpperChr(Chr(Head(words), 1)) ELSE "")
         \o first_letters(Tail(words))

\* acronym_match_score with the first letters compared before the knowledge base
acronym_match_score_FirstLettersFirst(institution_name, acronym) ==
    IF institution_name = "" \/ acronym = "" THEN [match |-> FALSE, score |-> 0]
    ELSE LET normalized_name == normalize_text(institution_name)
             normalized_acronym == upper(normalize_acronym(acronym))
             matches == findall_bracketed(normalized_name)
             expansions == get_acronym_expansions(normalized_acronym)
             words == split(normalized_name)
         IN IF \E m \in DOMAIN matches : lower(normalized_acronym) = strip(lower(matches[m]))
            THEN [match |-> TRUE, score |-> Pct(95)]
            ELSE IF /\ Len(words) >= 2
                    /\ Len(normalized_acronym) >= 2
                    /\ first_letters(words) = normalized_acronym
            THEN [match |-> TRUE, score |-> Pct(85)]
            ELSE IF \E e \in expansions : fuzzy_match_score(normalized_name, e, Pct(80)).match
            THEN [match |-> TRUE, score |-> Pct(92)]
            ELSE [match |-> FALSE, score |-> 0]

acronym_match_score(institution_name, acronym) ==
    IF institution_name = "" \/ acronym = "" THEN [match |-> FALSE, score |-> 0]
    ELSE LET normalized_name == normalize_text(institution_name)
             normalized_acronym == upper(normalize_acronym(acronym))
             matches == findall_bracketed(normalized_name)
             expansions == get_acronym_expansions(normalized_acronym)
             words == split(normalized_name)
         IN IF \E m \in DOMAIN matches : lower(normalized_acronym) = strip(lower(matches[m]))
            THEN [match |-> TRUE, score |-> Pct(95)]
            ELSE IF \E e \in expansions : fuzzy_match_score(normalized_name, e, Pct(80)).match
            THEN [match |-> TRUE, score |-> Pct(92)]
            ELSE IF /\ Len(words) >= 2
                    /\ Len(normalized_acronym) >= 2
                    /\ first_letters(words) = normalized_acronym
            THEN [match |-> TRUE, score |-> Pct(85)]
            ELSE [match |-> FALSE, score |-> 0]

\* the stop words of extract_meaningful_keywords
stop_words ==
    {"and", "or", "the", "a", "an", "of", "in", "for", "to", "is",
     "international", "center", "centre", "institute", "organization", "organisation",
     "foundation", "university", "college", "school", "academy", "research",
     "consultative", "council", "network", "association", "society", "board",
     "service", "development", "cooperation", "programme"}

extract_meaningful_keywords(text) == Range(split(normalize_text(text))) \ stop_words

\* keyword_overlap_score with the stop words kept in both word sets
keyword_overlap_score_KeepsStopWords(name1, name2, min_overlap) ==
    IF name1 = "" \/ name2 = "" THEN [match |-> FALSE, score |-> 0]
    ELSE LET keywords1 == Range(split(normalize_text(name1)))
             keywords2 == Range(split(normalize_text(name2)))
             overlap == keywords1 \cap keywords2
         IN IF keywords1 = {} \/ keywords2 = {} THEN [match |-> FALSE, score |-> 0]
            ELSE IF Cardinality(overlap) >= min_overlap
            THEN [match |-> TRUE,
                  score |-> (Cardinality(overlap) * Scale)
                            \div Cardinality(keywords1 \cup keywords2)]
            ELSE [match |-> FALSE, score |-> 0]

keyword_overlap_score(name1, name2, min_overlap) ==
    IF name1 = "" \/ name2 = "" THEN [match |-> FALSE, score |-> 0]
    ELSE LET keywords1 == extract_meaningful_keywords(name1)
             keywords2 == extract_meaningful_keywords(name2)
             overlap == keywords1 \cap keywords2
         IN IF keywords1 = {} \/ keywords2 = {} THEN [match |-> FALSE, score |-> 0]
            ELSE IF Cardinality(overlap) >= min_overlap
            THEN [match |-> TRUE,
                  score |-> (Cardinality(overlap) * Scale)
                            \div Cardinality(keywords1 \cup keywords2)]
            ELSE [match |-> FALSE, score |-> 0]

MatchResult(t, c, e) == [match_type |-> t, confidence |-> c, explanation |-> e]

\* the acronym step of multi_strategy_match: a result, or no_match when it decides nothing
acronym_strategy(uploaded_name, uploaded_acronym, clarisa_name, clarisa_acronym) ==
    LET norm_uploaded_acr == upper(normalize_acronym(uploaded_acronym))
        norm_clarisa_acr == upper(normalize_acronym(clarisa_acronym))
        known == \E k \in DOMAIN ACRONYM_DATABASE :
                     upper(ACRONYM_DATABASE[k][1]) = norm_uploaded_acr
        names == fuzzy_match_score(uploaded_name, clarisa_name, Pct(70))
        up == acronym_match_score(clarisa_name, uploaded_acronym)
        down == acronym_match_score(uploaded_name, clarisa_acronym)
    IN IF uploaded_acronym = "" \/ clarisa_acronym = ""
       THEN MatchResult("no_match", 0, "")
       ELSE IF /\ norm_uploaded_acr = norm_clarisa_acr
               /\ known
               /\ (names.match \/ names.score > Pct(65))
       THEN MatchResult("acronym", Max(Pct(90), names.score), "Same acronym with similar names")
       ELSE IF /\ norm_uploaded_acr = norm_clarisa_acr
               /\ ~known
               /\ normalize_text(uploaded_name) = normalize_text(clarisa_name)
       THEN MatchResult("acronym", Pct(90), "Same acronym with identical names")
       ELSE IF up.match
       THEN MatchResult("acronym", up.score, "Acronym matches institution name")
       ELSE IF down.match
       THEN MatchResult("acronym", down.score, "Institution matches acronym")
       ELSE MatchResult("no_match", 0, "")

\* multi_strategy_match with the fuzzy step tried before the acronym step
multi_strategy_match_FuzzyFirst(uploaded_name, uploaded_acronym, clarisa_name, clarisa_acronym) ==
    LET byAcronym == acronym_strategy(uploaded_name, uploaded_acronym,
                                      clarisa_name, clarisa_acronym)
        fuzzy == fuzzy_match_score(uploaded_name, clarisa_name, Pct(75))
        keyword == keyword_overlap_score(uploaded_name, clarisa_name, 2)
        combined_confidence == (fuzzy.score * 6 + keyword.score * 4) \div 10
    IN IF normalize_text(uploaded_name) = normalize_text(clarisa_name)
       THEN MatchResult("exact", Scale, "Exact institution name match")
       ELSE IF fuzzy.match /\ fuzzy.score >= Pct(85)
       THEN MatchResult("fuzzy", fuzzy.score, "Fuzzy match on institution name")
       ELSE IF byAcronym.match_type # "no_match"
       THEN byAcronym
       ELSE IF keyword.match /\ keyword.score >= Pct(70)
       THEN MatchResult("keyword", keyword.score, "Strong keyword overlap detected")
       ELSE IF /\ (fuzzy.score >= Pct(75) \/ keyword.score >= Pct(60))
               /\ combined_confidence >= Pct(72)
       THEN MatchResult("fuzzy", combined_confidence, "Combined fuzzy and keyword match")
       ELSE MatchResult("no_match", 0, "No matching signals detected")

multi_strategy_match(uploaded_name, uploaded_acronym, clarisa_name, clarisa_acronym) ==
    LET byAcronym == acronym_strategy(uploaded_name, uploaded_acronym,
                                      clarisa_name, clarisa_acronym)
        fuzzy == fuzzy_match_score(uploaded_name, clarisa_name, Pct(75))
        keyword == keyword_overlap_score(uploaded_name, clarisa_name, 2)
        combined_confidence == (fuzzy.score * 6 + keyword.score * 4) \div 10
    IN IF normalize_text(uploaded_name) = normalize_text(clarisa_name)
       THEN MatchResult("exact", Scale, "Exact institution name match")
       ELSE IF byAcronym.match_type # "no_match"
       THEN byAcronym
       ELSE IF fuzzy.match /\ fuzzy.score >= Pct(85)
       THEN MatchResult("fuzzy", fuzzy.score, "Fuzzy match on institution name")
       ELSE IF keyword.match /\ keyword.score >= Pct(70)
       THEN MatchResult("keyword", keyword.score, "Strong keyword overlap detected")
       ELSE IF /\ (fuzzy.score >= Pct(75) \/ keyword.score >= Pct(60))
               /\ combined_confidence >= Pct(72)
       THEN MatchResult("fuzzy", combined_confidence, "Combined fuzzy and keyword match")
       ELSE MatchResult("no_match", 0, "No matching signals detected")

\* ------------------------------------------------------------------------
\* embeddings/bedrock_service.py
\* ------------------------------------------------------------------------

\* Python's None, where the value is a string or an identifier
None == "None"

\* settings.USE_MOCK_EMBEDDINGS, "false" unless the environment sets it
USE_MOCK_EMBEDDINGS == FALSE

\* _generate_mock_embedding: a vector that is a function of the text alone (the source
\* takes it from the SHA-256 of the text), of another dimension than the provider's
_generate_mock_embedding(text) ==
    LET h == Len(lower(text)) % 3
    IN IF h = 0 THEN <<1, 2, 2>> ELSE IF h = 1 THEN <<2, 1, 2>> ELSE <<2, 2, 1>>

\* generate_embedding; the provider either answers with a vector (an empty one counts
\* as no embedding) or raises.  A missing embedding, None, is the empty tuple.
generate_embedding(text, provider) ==
    IF strip(text) = "" THEN << >>
    ELSE IF USE_MOCK_EMBEDDINGS THEN _generate_mock_embedding(text)
    ELSE IF provider.raises THEN _generate_mock_embedding(text)
    ELSE provider.embedding

RECURSIVE dot(_, _)
dot(a, b) == IF a = << >> THEN 0 ELSE Head(a) * Head(b) + dot(Tail(a), Tail(b))

\* x ** 0.5, exact on the squares, which are the only values the model's vectors give
sqrt(x) == CHOOSE r \in 0..x : r * r <= x /\ (r + 1) * (r + 1) > x

\* one unit in the last place of the float 1.0, written as one unit of the scores
Ulp == 1

\* what the rounding of the float operations ** 0.5, * and / adds to the quotient of two
\* parallel vectors: nothing, or one unit in the last place (the source's expression gives
\* 1.0 for [1.0, 2.0, 3.0] with itself and 1.0000000000000002 for [1.0, 1.0, 1.0])
Roundings == {0, Ulp}

\* cosine similarity, in floating point.  The unit of the scores is far above the rounding
\* error, which therefore shows only at the bound 1.0 of the quotient.
\* similarity_score without its length check: zip pairs the components up to the shorter vector
similarity_score_Zipped(embedding1, embedding2, rounding) ==
    IF embedding1 = << >> \/ embedding2 = << >> THEN 0
    ELSE LET n == IF Len(embedding1) < Len(embedding2) THEN Len(embedding1) ELSE Len(embedding2)
             dot_product == dot(SubSeq(embedding1, 1, n), SubSeq(embedding2, 1, n))
             magnitude1 == sqrt(dot(embedding1, embedding1))
             magnitude2 == sqrt(dot(embedding2, embedding2))
         IN IF magnitude1 = 0 \/ magnitude2 = 0 THEN 0
            ELSE LET quotient == (dot_product * Scale) \div (magnitude1 * magnitude2)
                 IN IF quotient = Scale THEN quotient + rounding ELSE quotient

similarity_score(embedding1, embedding2, rounding) ==
    IF embedding1 = << >> \/ embedding2 = << >> THEN 0
    ELSE IF Len(embedding1) # Len(embedding2) THEN 0
    ELSE LET dot_product == dot(embedding1, embedding2)
             magnitude1 == sqrt(dot(embedding1, embedding1))
             magnitude2 == sqrt(dot(embedding2, embedding2))
         IN IF magnitude1 = 0 \/ magnitude2 = 0 THEN 0
            ELSE LET quotient == (dot_product * Scale) \div (magnitude1 * magnitude2)
                 IN IF quotient = Scale THEN quotient + rounding ELSE quotient

\* ------------------------------------------------------------------------
\* duplicate_detection/detector.py
\* ------------------------------------------------------------------------

\* dict.get(key): None for a missing key
Get(d, key) == IF key \in DOMAIN d THEN d[key] ELSE None

\* dict.get(key, ""), and None read as the empty string by the callee
GetStr(d, key) == IF key \in DOMAIN d /\ d[key] # None THEN d[key] ELSE ""

\* dict.get("embedding_vector"): the empty tuple for a missing one
GetEmbedding(d) == IF "embedding_vector" \in DOMAIN d THEN d.embedding_vector ELSE << >>

\* DetectionSignals()
DetectionSignals ==
    [exact_name_match |-> FALSE, core_name_match |-> FALSE, variant_name_match |-> FALSE,
     exact_acronym_match |-> FALSE, exact_url_match |-> FALSE,
     semantic_name_similarity |-> 0, semantic_combined_similarity |-> 0,
     same_country |-> FALSE, acronym_similarity |-> 0, keyword_match_score |-> 0]

\* advanced_multi_strategy_match with the registry entry's name and acronym swapped
advanced_multi_strategy_match_Swapped(uploaded_record, clarisa_record) ==
    multi_strategy_match(GetStr(uploaded_record, "partner_name"),
                         GetStr(uploaded_record, "acronym"),
                         GetStr(clarisa_record, "acronym"),
                         GetStr(clarisa_record, "partner_name"))

advanced_multi_strategy_match(uploaded_record, clarisa_record) ==
    multi_strategy_match(GetStr(uploaded_record, "partner_name"),
                         GetStr(uploaded_record, "acronym"),
                         GetStr(clarisa_record, "partner_name"),
                         GetStr(clarisa_record, "acronym"))

\* check_rule_based_signals with the country gating the semantic candidate
check_rule_based_signals_SameCountryOnly(uploaded_record, clarisa_record, combined_similarity) ==
    LET countries_match == lower(Get(uploaded_record, "country_id"))
                           = lower(Get(clarisa_record, "country_id"))
        signals == [DetectionSignals EXCEPT !.same_country = countries_match]
        url1 == normalize_url(GetStr(uploaded_record, "web_page"))
        url2 == normalize_url(GetStr(clarisa_record, "web_page"))
    IN IF combined_similarity >= Pct(70) /\ countries_match
       THEN [signals |-> [signals EXCEPT !.semantic_combined_similarity = combined_similarity],
             is_candidate |-> TRUE]
       ELSE IF url1 # "" /\ url2 # "" /\ url1 = url2
       THEN [signals |-> [signals EXCEPT !.exact_url_match = TRUE], is_candidate |-> TRUE]
       ELSE [signals |-> signals, is_candidate |-> FALSE]

\* <<signals, is_candidate>> as a record
check_rule_based_signals(uploaded_record, clarisa_record, combined_similarity) ==
    LET countries_match == lower(Get(uploaded_record, "country_id"))
                           = lower(Get(clarisa_record, "country_id"))
        signals == [DetectionSignals EXCEPT !.same_country = countries_match]
        url1 == normalize_url(GetStr(uploaded_record, "web_page"))
        url2 == normalize_url(GetStr(clarisa_record, "web_page"))
    IN IF combined_similarity >= Pct(70)
       THEN [signals |-> [signals EXCEPT !.semantic_combined_similarity = combined_similarity],
             is_candidate |-> TRUE]
       ELSE IF url1 # "" /\ url2 # "" /\ url1 = url2
       THEN [signals |-> [signals EXCEPT !.exact_url_match = TRUE], is_candidate |-> TRUE]
       ELSE [signals |-> signals, is_candidate |-> FALSE]

\* the members of the enum DuplicateStatus
DuplicateStatus ==
    [DUPLICATE |-> "duplicate", POTENTIAL_DUPLICATE |-> "potential_duplicate",
     NO_MATCH |-> "no_match"]

\* what classify_record returns, or the exception it raises
Classified(status, similarity, reason, matched) ==
    [raised |-> "", status |-> status, similarity |-> similarity, reason |-> reason,
     matched_clarisa_id |-> matched]

\* DuplicateStatus.<member>: an AttributeError for a name the enum does not have
StatusMember(member, similarity, reason, matched) ==
    IF member \in DOMAIN DuplicateStatus
    THEN Classified(DuplicateStatus[member], similarity, reason, matched)
    ELSE [raised |-> "AttributeError", status |-> None, similarity |-> 0, reason |-> "",
          matched_clarisa_id |-> None]

_build_semantic_reason(signals) ==
    IF \/ signals.exact_url_match
       \/ signals.semantic_combined_similarity > 0
       \/ signals.same_country
       \/ signals.keyword_match_score > 0
    THEN "Semantic similarity - signals"
    ELSE "Semantic similarity - high semantic similarity"

\* classify_record with the acronym tier tried before the name tier
classify_record_AcronymFirst(uploaded_record, similarity_results) ==
    IF similarity_results = << >>
    THEN StatusMember("NO_MATCH", 0, "No matching institutions found", None)
    ELSE LET similarity_score_ == similarity_results[1].similarity_score
             matched_clarisa_id == similarity_results[1].matched_clarisa_id
             signals == similarity_results[1].signals
             explanation == similarity_results[1].explanation
         IN IF signals.acronym_similarity >= Pct(90)
            THEN StatusMember("DUPLICATE", similarity_score_, "Acronym match",
                              matched_clarisa_id)
            ELSE IF \/ signals.exact_name_match
                    \/ signals.core_name_match
                    \/ signals.variant_name_match
            THEN StatusMember("DUPLICATE", Max(similarity_score_, Pct(95)),
                              IF explanation # "" THEN explanation ELSE "Exact name match",
                              matched_clarisa_id)
            ELSE IF similarity_score_ >= Pct(85)
            THEN StatusMember("DUPLICATE", similarity_score_,
                              IF explanation # "" THEN explanation ELSE "Strong match",
                              matched_clarisa_id)
            ELSE IF similarity_score_ >= Pct(72)
            THEN StatusMember("POSSIBLE_DUPLICATE", similarity_score_,
                              IF explanation # "" THEN explanation
                              ELSE _build_semantic_reason(signals),
                              matched_clarisa_id)
            ELSE IF signals.exact_url_match /\ signals.acronym_similarity > Pct(70)
            THEN StatusMember("POSSIBLE_DUPLICATE", Max(signals.acronym_similarity, Pct(75)),
                              "Website match with acronym similarity", matched_clarisa_id)
            ELSE StatusMember("NO_MATCH", 0, "No matching institutions found", None)

\* similarity_results is the empty tuple for None, else a one-element tuple holding the dict
classify_record(uploaded_record, similarity_results) ==
    IF similarity_results = << >>
    THEN StatusMember("NO_MATCH", 0, "No matching institutions found", None)
    ELSE LET similarity_score_ == similarity_results[1].similarity_score
             matched_clarisa_id == similarity_results[1].matched_clarisa_id
             signals == similarity_results[1].signals
             explanation == similarity_results[1].explanation
         IN IF \/ signals.exact_name_match
               \/ signals.core_name_match
               \/ signals.variant_name_match
            THEN StatusMember("DUPLICATE", Max(similarity_score_, Pct(95)),
                              IF explanation # "" THEN explanation ELSE "Exact name match",
                              matched_clarisa_id)
            ELSE IF signals.acronym_similarity >= Pct(90)
            THEN StatusMember("DUPLICATE", similarity_score_, "Acronym match",
                              matched_clarisa_id)
            ELSE IF similarity_score_ >= Pct(85)
            THEN StatusMember("DUPLICATE", similarity_score_,
                              IF explanation # "" THEN explanation ELSE "Strong match",
                              matched_clarisa_id)
            ELSE IF similarity_score_ >= Pct(72)
            THEN StatusMember("POSSIBLE_DUPLICATE", similarity_score_,
                              IF explanation # "" THEN explanation
                              ELSE _build_semantic_reason(signals),
                              matched_clarisa_id)
            ELSE IF signals.exact_url_match /\ signals.acronym_similarity > Pct(70)
            THEN StatusMember("POSSIBLE_DUPLICATE", Max(signals.acronym_similarity, Pct(75)),
                              "Website match with acronym similarity", matched_clarisa_id)
            ELSE StatusMember("NO_MATCH", 0, "No matching institutions found", None)

\* ------------------------------------------------------------------------
\* Inputs of the model
\* ------------------------------------------------------------------------

\* the most rows an uploaded file holds
MaxBatch == 2

\* the most rows the clarisa_institutions table holds
MaxRegistry == 2

\* the sequences over S of length lo..hi
SeqsOf(S, lo, hi) == UNION {[1..n -> S] : n \in lo..hi}

Row(id, name, acronym, web, type, country) ==
    [id |-> id, partner_name |-> name, acronym |-> acronym, web_page |-> web,
     institution_type |-> type, country_id |-> country]

\* the data rows an uploaded sheet can hold; an empty cell is ""
SheetRows ==
    { Row("u1", "World Fish Center", "WorldFish", "http://www.worldfishcenter.org/",
          "Research Center", "1"),
      Row("u2", "Cornell University", "", "", "University", "2"),
      Row("u3", "Aquatic Agency", "AA", "cornell.edu", "Agency", "1"),
      Row("u4", "Rice Wheat Global", "", "", "NGO", "2"),
      Row("u5", "Fish", "WFC", "https://worldfishcenter.org", "NGO", "1"),
      Row("u6", "Fish Agency", "", "", "Agency", "MX"),
      Row("u7", "", "NN", "", "NGO", "1"),
      Row("u8", "World Agroforestry Centre", "ICRAF", "", "Research Center", "2"),
      Row("u9", "Rice Wheat Global", "WFC", "", "NGO", "1") }

\* the vector the embedding provider computes for a text, when it answers
ProviderEmbedding(text) ==
    IF Contains(text, "World Fish Center") THEN <<4, 3>>
    ELSE IF Contains(text, "Cornell University") THEN <<3, 4>>
    ELSE IF Contains(text, "Aquatic Agency") THEN <<5, 0>>
    ELSE IF Contains(text, "Rice Wheat Global") THEN <<0, 5>>
    ELSE <<5, 0>>

\* what the embedding provider can do with one call
ProviderOutcomes(text) ==
    { [raises |-> FALSE, embedding |-> ProviderEmbedding(text)],
      [raises |-> FALSE, embedding |-> << >>],
      [raises |-> TRUE, embedding |-> << >>] }

Institution(id, clarisa_id, name, acronym, website, country) ==
    [id |-> id, clarisa_id |-> clarisa_id, name |-> name, acronym |-> acronym,
     institution_type |-> "Research Center", website |-> website, country_id |-> country]

\* the rows the table clarisa_institutions can hold
InstitutionRows ==
    { Institution(11, "c1", "World Fish Centre", "WF", None, "2"),
      Institution(12, "c2", " world  fish CENTER", None, "worldfishcenter.org", "1"),
      Institution(13, "c3", "Cornel University", "CU", "https://www.cornell.edu/", "2"),
      Institution(14, "c4", "Cornel Universty", None, None, "2"),
      Institution(15, "c5", "Global Rice Wheat Alliance", "GRWA", None, "1"),
      Institution(16, "c6", "Aquatic Agency", None, None, "1"),
      Institution(17, "c7", None, "WAC", None, "1") }

\* the table institution_embeddings: institution_id -> embedding_vector; institution 16
\* has no row in it, the vector of institution 14 is of the mock's dimension, and
\* institution 17 is a row whose name column is null
EmbeddingRows ==
    { [institution_id |-> 11, embedding_vector |-> <<12, -5>>],
      [institution_id |-> 12, embedding_vector |-> <<3, 4>>],
      [institution_id |-> 13, embedding_vector |-> <<4, 3>>],
      [institution_id |-> 14, embedding_vector |-> <<2, 1, 2>>],
      [institution_id |-> 15, embedding_vector |-> <<120, 119>>],
      [institution_id |-> 17, embedding_vector |-> <<4, 3>>] }

\* ------------------------------------------------------------------------
\* persistence/supabase_client.py
\* ------------------------------------------------------------------------

\* settings.USE_MOCK_SUPABASE, "false" unless the environment sets it
USE_MOCK_SUPABASE == FALSE

\* a set of table rows in the order of .order("id")
RECURSIVE OrderById(_)
OrderById(rows) ==
    IF rows = {} THEN << >>
    ELSE LET first == CHOOSE r \in rows : \A q \in rows : r.id <= q.id
         IN <<first>> \o OrderById(rows \ {first})

\* inst.get(key) or ""
OrEmpty(v) == IF v = None THEN "" ELSE v

\* get_clarisa_institutions on a database db = [institutions, embeddings, fails]: the
\* institutions that have an embedding, merged with it; [] when a query fails
get_clarisa_institutions(db) ==
    IF USE_MOCK_SUPABASE \/ db.fails THEN << >>
    ELSE LET all_institutions == OrderById(db.institutions)
             HasEmbedding(inst) == \E e \in db.embeddings : e.institution_id = inst.id
             EmbeddingOf(inst) ==
                 (CHOOSE e \in db.embeddings : e.institution_id = inst.id).embedding_vector
             Merged(inst) ==
                 [id |-> inst.id, clarisa_id |-> inst.clarisa_id, partner_name |-> inst.name,
                  acronym |-> OrEmpty(inst.acronym), institution_type |-> inst.institution_type,
                  web_page |-> OrEmpty(inst.website), country_id |-> inst.country_id,
                  embedding_vector |-> EmbeddingOf(inst)]
             RECURSIVE MergeAll(_)
             MergeAll(insts) ==
                 IF insts = << >> THEN << >>
                 ELSE (IF HasEmbedding(Head(insts)) THEN <<Merged(Head(insts))>> ELSE << >>)
                      \o MergeAll(Tail(insts))
         IN MergeAll(all_institutions)

\* the databases the model runs against
Databases ==
    { [institutions |-> t, embeddings |-> EmbeddingRows, fails |-> FALSE] :
        t \in {x \in SUBSET InstitutionRows : Cardinality(x) <= MaxRegistry} }
    \cup { [institutions |-> {}, embeddings |-> {}, fails |-> TRUE] }

\* get_countries_map: country code -> name
countries_map == [code \in {"1", "2"} |-> IF code = "1" THEN "Kenya" ELSE "Peru"]

\* ------------------------------------------------------------------------
\* services/excel_parser.py
\* ------------------------------------------------------------------------

REQUIRED_COLUMNS == <<"id", "partner_name", "institution_type", "country_id">>

\* the data rows of parse_excel_file, the sheet's first data row being row 2: the
\* records, and one error per empty required cell
RECURSIVE parse_rows(_, _)
parse_rows(rows, row_idx) ==
    IF rows = << >> THEN [records |-> << >>, errors |-> << >>]
    ELSE LET row == Head(rows)
             rest == parse_rows(Tail(rows), row_idx + 1)
             missing == SelectSeq(REQUIRED_COLUMNS, LAMBDA f : row[f] = "")
             row_errors == [i \in DOMAIN missing |-> [row |-> row_idx, field |-> missing[i]]]
         IN IF \A f \in DOMAIN row : row[f] = "" THEN rest
            ELSE IF missing # << >>
            THEN [records |-> rest.records, errors |-> row_errors \o rest.errors]
            ELSE [records |-> <<row>> \o rest.records, errors |-> rest.errors]

parse_excel_file(file_content) == parse_rows(file_content, 2)

\* ------------------------------------------------------------------------
\* api/institutions.py
\* ------------------------------------------------------------------------

\* the fallback registry
MOCK_CLARISA_INSTITUTIONS ==
    << [id |-> 1, partner_name |-> "International Maize and Wheat Improvement Center",
        acronym |-> "CIMMYT", web_page |-> "https://www.cimmyt.org",
        institution_type |-> "Research Center", country_id |-> "MX"],
       [id |-> 2, partner_name |-> "International Rice Research Institute",
        acronym |-> "IRRI", web_page |-> "https://www.irri.org",
        institution_type |-> "Research Center", country_id |-> "PH"],
       [id |-> 3, partner_name |-> "World Agroforestry Centre",
        acronym |-> "ICRAF", web_page |-> "https://www.worldagroforestry.org",
        institution_type |-> "Research Center", country_id |-> "KE"] >>

\* ProcessingProgress(total)
ProcessingProgress(total) ==
    [total |-> total, processed |-> 0, duplicates |-> 0, potential_duplicates |-> 0,
     errors |-> << >>]

\* int(s) raises ValueError unless s is a run of digits
IsInt(s) == s # "" /\ \A i \in 1..Len(s) : InStr(Chr(s, i), Digits)

\* ", ".join(parts)
RECURSIVE Join(_)
Join(parts) ==
    IF parts = << >> THEN ""
    ELSE IF Len(parts) = 1 THEN parts[1]
    ELSE parts[1] \o ", " \o Join(Tail(parts))

\* the text the embedding is generated from
embedding_text(record) ==
    LET Part(label, v) == IF v # "" /\ v # None THEN <<label \o v>> ELSE << >>
        country_name == Get(countries_map, record.country_id)
    IN Join(Part("acronym: ", record.acronym)
            \o Part("Partner_name: ", record.partner_name)
            \o Part("institution_type: ", record.institution_type)
            \o Part("website: ", record.web_page)
            \o Part("country: ", country_name))

VARIABLES
    file,                  \* the uploaded sheet: its data rows
    pc,                    \* where the handler is
    response,              \* the HTTP status answered, "" before
    records,               \* the parsed records
    clarisa_institutions,  \* the registry the batch is scanned against
    corpus,                \* how the registry was obtained
    database,              \* the tables the fetch read, << >> before it
    cur,                   \* index in records of the record being processed
    provider,              \* what the embedding provider did for this record
    uploaded_embedding,    \* the embedding of the record, << >> for None
    idx,                   \* index in clarisa_institutions of the next entry
    advanced_result,       \* the symbolic result for the entry examined last
    combined_sim,          \* the semantic similarity computed for it
    best_match,            \* << >> for None, else <<candidate>>
    best_similarity,
    results,
    progress,
    audit_logs,
    embedding_calls,       \* calls of generate_embedding in this batch
    call,                  \* a function called on its own: <<name, arguments>>, or << >>
    returned               \* what that call returned, << >> before it returns

\* the variables of the upload handler
handler == <<file, pc, response, records, clarisa_institutions, corpus, database, cur,
             provider, uploaded_embedding, idx, advanced_result, combined_sim, best_match,
             best_similarity, results, progress, audit_logs, embedding_calls>>

\* the variables of a function called on its own
calls == <<call, returned>>

vars == <<handler, calls>>

NoResult == MatchResult("no_match", 0, "")

NoProvider == [raises |-> FALSE, embedding |-> << >>]

Init ==
    /\ file \in SeqsOf(SheetRows, 0, MaxBatch)
    /\ pc = "parse"
    /\ response = ""
    /\ records = << >>
    /\ clarisa_institutions = << >>
    /\ corpus = ""
    /\ database = << >>
    /\ cur = 0
    /\ provider = NoProvider
    /\ uploaded_embedding = << >>
    /\ idx = 0
    /\ advanced_result = NoResult
    /\ combined_sim = 0
    /\ best_match = << >>
    /\ best_similarity = 0
    /\ results = << >>
    /\ progress = ProcessingProgress(0)
    /\ audit_logs = << >>
    /\ embedding_calls = 0
    /\ call = << >>
    /\ returned = << >>

\* the record the loop is at
record == records[cur]

row_id == record.id

\* the upload is refused: a row with an empty required cell, or no record at all
ParseRejected ==
    /\ pc = "parse"
    /\ \E parsed \in {parse_excel_file(file)} :
          parsed.errors # << >> \/ parsed.records = << >>
    /\ response' = "400"
    /\ pc' = "done"
    /\ UNCHANGED <<calls, file, records, clarisa_institutions, corpus, database, cur, provider,
                   uploaded_embedding, idx, advanced_result, combined_sim, best_match,
                   best_similarity, results, progress, audit_logs, embedding_calls>>

\* a collaborator raises before the loop (the services, the countries map, the audit log)
ServicesFail ==
    /\ pc = "parse"
    /\ \E parsed \in {parse_excel_file(file)} :
          parsed.errors = << >> /\ parsed.records # << >>
    /\ response' = "500"
    /\ pc' = "done"
    /\ UNCHANGED <<calls, file, records, clarisa_institutions, corpus, database, cur, provider,
                   uploaded_embedding, idx, advanced_result, combined_sim, best_match,
                   best_similarity, results, progress, audit_logs, embedding_calls>>

\* BeginBatch going on with the valid records of a sheet that has parse errors
BeginBatch_IgnoresParseErrors ==
    /\ pc = "parse"
    /\ \E parsed \in {parse_excel_file(file)} :
          /\ parsed.records # << >>
          /\ records' = parsed.records
          /\ progress' = ProcessingProgress(Len(parsed.records))
          /\ audit_logs' = Append(audit_logs, [event_type |-> "upload", row_id |-> ""])
    /\ pc' = "fetch"
    /\ UNCHANGED <<calls, file, response, clarisa_institutions, corpus, database, cur, provider,
                   uploaded_embedding, idx, advanced_result, combined_sim, best_match,
                   best_similarity, results, embedding_calls>>

BeginBatch ==
    /\ pc = "parse"
    /\ \E parsed \in {parse_excel_file(file)} :
          /\ parsed.errors = << >>
          /\ parsed.records # << >>
          /\ records' = parsed.records
          /\ progress' = ProcessingProgress(Len(parsed.records))
          /\ audit_logs' = Append(audit_logs, [event_type |-> "upload", row_id |-> ""])
    /\ pc' = "fetch"
    /\ UNCHANGED <<calls, file, response, clarisa_institutions, corpus, database, cur, provider,
                   uploaded_embedding, idx, advanced_result, combined_sim, best_match,
                   best_similarity, results, embedding_calls>>

\* supabase.get_clarisa_institutions() returns
FetchCorpus ==
    /\ pc = "fetch"
    /\ \E db \in Databases :
          /\ clarisa_institutions' = get_clarisa_institutions(db)
          /\ corpus' = IF db.fails THEN "failed" ELSE "fetched"
          /\ database' = <<db>>
    /\ results' = << >>
    /\ cur' = 1
    /\ pc' = "record"
    /\ UNCHANGED <<calls, file, response, records, provider, uploaded_embedding, idx,
                   advanced_result, combined_sim, best_match, best_similarity, progress,
                   audit_logs, embedding_calls>>

\* FetchCorpusRaises without the fallback: the exception ends the call with a 500
FetchCorpusRaises_Surfaces ==
    /\ pc = "fetch"
    /\ corpus' = "raised"
    /\ response' = "500"
    /\ pc' = "done"
    /\ UNCHANGED <<calls, file, records, clarisa_institutions, database, cur, provider,
                   uploaded_embedding, idx, advanced_result, combined_sim, best_match, best_similarity,
                   results, progress, audit_logs, embedding_calls>>

\* supabase.get_clarisa_institutions() raises
FetchCorpusRaises ==
    /\ pc = "fetch"
    /\ clarisa_institutions' = MOCK_CLARISA_INSTITUTIONS
    /\ corpus' = "raised"
    /\ results' = << >>
    /\ cur' = 1
    /\ pc' = "record"
    /\ UNCHANGED <<calls, file, response, records, database, provider, uploaded_embedding, idx,
                   advanced_result, combined_sim, best_match, best_similarity, progress,
                   audit_logs, embedding_calls>>

\* the loop moves to the next record, or ends
NextRecord == IF cur = Len(records) THEN "respond" ELSE "record"

\* RecordError losing the error: nothing is appended to the error list
RecordError_Dropped(e) ==
    /\ progress' = progress
    /\ audit_logs' = Append(audit_logs, [event_type |-> "error", row_id |-> row_id])

\* except Exception as e, for the record the loop is at
RecordError(e) ==
    /\ progress' = [progress EXCEPT !.errors = Append(@, [row |-> row_id, error |-> e])]
    /\ audit_logs' = Append(audit_logs, [event_type |-> "error", row_id |-> row_id])

\* the record's country_id is no number: int(country_id) raises
StartRecordRaises ==
    /\ pc = "record"
    /\ ~IsInt(record.country_id)
    /\ progress' = [progress EXCEPT !.processed = @ + 1,
                                    !.errors = Append(@, [row |-> row_id, error |-> "ValueError"])]
    /\ audit_logs' = Append(audit_logs, [event_type |-> "error", row_id |-> row_id])
    /\ cur' = cur + 1
    /\ pc' = NextRecord
    /\ UNCHANGED <<calls, file, response, records, clarisa_institutions, corpus, database, provider,
                   uploaded_embedding, idx, advanced_result, combined_sim, best_match,
                   best_similarity, results, embedding_calls>>

\* StartRecord with the embedding generated once per registry entry
StartRecord_PerEntry ==
    /\ pc = "record"
    /\ IsInt(record.country_id)
    /\ progress' = [progress EXCEPT !.processed = @ + 1]
    /\ \E text \in {embedding_text(record)} :
       \E out \in ProviderOutcomes(text) :
          /\ provider' = out
          /\ uploaded_embedding' = generate_embedding(text, out)
    /\ embedding_calls' = embedding_calls + Len(clarisa_institutions)
    /\ best_match' = << >>
    /\ best_similarity' = 0
    /\ advanced_result' = NoResult
    /\ combined_sim' = 0
    /\ idx' = 1
    /\ pc' = IF clarisa_institutions = << >> THEN "classify" ELSE "scan"
    /\ UNCHANGED <<calls, file, response, records, clarisa_institutions, corpus, database, cur, results,
                   audit_logs>>

\* StartRecord keeping the best-candidate accumulator of the record before
StartRecord_KeepsAccumulator ==
    /\ pc = "record"
    /\ IsInt(record.country_id)
    /\ progress' = [progress EXCEPT !.processed = @ + 1]
    /\ \E text \in {embedding_text(record)} :
       \E out \in ProviderOutcomes(text) :
          /\ provider' = out
          /\ uploaded_embedding' = generate_embedding(text, out)
    /\ embedding_calls' = embedding_calls + 1
    /\ advanced_result' = NoResult
    /\ combined_sim' = 0
    /\ idx' = 1
    /\ pc' = IF clarisa_institutions = << >> THEN "classify" ELSE "scan"
    /\ UNCHANGED <<calls, file, response, records, clarisa_institutions, corpus, database, cur,
                   results, audit_logs, best_match, best_similarity>>

\* the record's embedding is generated and its scan begins
StartRecord ==
    /\ pc = "record"
    /\ IsInt(record.country_id)
    /\ progress' = [progress EXCEPT !.processed = @ + 1]
    /\ \E text \in {embedding_text(record)} :
       \E out \in ProviderOutcomes(text) :
          /\ provider' = out
          /\ uploaded_embedding' = generate_embedding(text, out)
    /\ embedding_calls' = embedding_calls + 1
    /\ best_match' = << >>
    /\ best_similarity' = 0
    /\ advanced_result' = NoResult
    /\ combined_sim' = 0
    /\ idx' = 1
    /\ pc' = IF clarisa_institutions = << >> THEN "classify" ELSE "scan"
    /\ UNCHANGED <<calls, file, response, records, clarisa_institutions, corpus, database, cur, results,
                   audit_logs>>

\* SymbolicSignals marking an acronym match as a name variant as well
SymbolicSignals_AcronymAsVariant(result) ==
    IF result.match_type = "exact"
    THEN [DetectionSignals EXCEPT !.exact_name_match = TRUE]
    ELSE IF result.match_type = "acronym"
    THEN [DetectionSignals EXCEPT !.acronym_similarity = result.confidence,
                                  !.variant_name_match = TRUE]
    ELSE IF result.match_type = "fuzzy"
    THEN [DetectionSignals EXCEPT !.variant_name_match = TRUE]
    ELSE IF result.match_type = "keyword"
    THEN [DetectionSignals EXCEPT !.keyword_match_score = result.confidence]
    ELSE DetectionSignals

\* the signals of a symbolic match
SymbolicSignals(result) ==
    IF result.match_type = "exact"
    THEN [DetectionSignals EXCEPT !.exact_name_match = TRUE]
    ELSE IF result.match_type = "acronym"
    THEN [DetectionSignals EXCEPT !.acronym_similarity = result.confidence]
    ELSE IF result.match_type = "fuzzy"
    THEN [DetectionSignals EXCEPT !.variant_name_match = TRUE]
    ELSE IF result.match_type = "keyword"
    THEN [DetectionSignals EXCEPT !.keyword_match_score = result.confidence]
    ELSE DetectionSignals

Candidate(clarisa_id, similarity, signals, explanation, match_type) ==
    [clarisa_id |-> clarisa_id, similarity |-> similarity, signals |-> signals,
     explanation |-> explanation, match_type |-> match_type]

\* the symbolic match replaces the retained candidate
RetainSymbolic(result, current_best) == result.match_type # "no_match"

\* StopsScan with a fuzzy match of confidence >= 0.90 stopping the scan too
StopsScan_AlsoFuzzy(result) ==
    /\ result.match_type \in {"exact", "acronym", "fuzzy"}
    /\ result.confidence >= Pct(90)

\* the scan stops at this entry
StopsScan(result) ==
    /\ result.match_type \in {"exact", "acronym"}
    /\ result.confidence >= Pct(90)

\* one iteration of the scan of the registry, for the entry at idx
ScanEntry ==
    /\ pc = "scan"
    /\ \E clarisa_record \in {clarisa_institutions[idx]} :
       \E result \in {advanced_multi_strategy_match(record, clarisa_record)} :
       \E sim \in {IF uploaded_embedding # << >> /\ GetEmbedding(clarisa_record) # << >>
                   THEN similarity_score(uploaded_embedding, GetEmbedding(clarisa_record),
                                         rounding)
                   ELSE 0 : rounding \in Roundings} :
       \E rule \in {check_rule_based_signals(record, clarisa_record, sim)} :
       LET matched == RetainSymbolic(result, best_match)
           symbolic == IF matched
                       THEN <<Candidate(Get(clarisa_record, "clarisa_id"), result.confidence,
                                        SymbolicSignals(result), result.explanation,
                                        result.match_type)>>
                       ELSE best_match
           stops == matched /\ StopsScan(result)
           symbolic_best == IF matched /\ ~stops /\ result.confidence > best_similarity
                            THEN result.confidence ELSE best_similarity
           semantic == ~stops /\ (symbolic = << >> \/ symbolic[1].similarity < Pct(85))
           takes == semantic /\ rule.is_candidate /\ sim > symbolic_best
       IN /\ advanced_result' = result
          /\ combined_sim' = IF semantic THEN sim ELSE combined_sim
          /\ best_match' =
                IF takes
                THEN <<Candidate(Get(clarisa_record, "clarisa_id"), sim,
                                 [rule.signals EXCEPT !.semantic_combined_similarity = sim],
                                 "", "semantic")>>
                ELSE symbolic
          /\ best_similarity' = IF takes THEN sim ELSE symbolic_best
          /\ idx' = IF stops THEN idx ELSE idx + 1
          /\ pc' = IF stops \/ idx = Len(clarisa_institutions) THEN "classify" ELSE "scan"
    /\ UNCHANGED <<calls, file, response, records, clarisa_institutions, corpus, database, cur, provider,
                   uploaded_embedding, results, progress, audit_logs, embedding_calls>>

\* what the handler passes to classify_record
SimilarityResults ==
    IF best_match # << >> /\ best_match[1].similarity > 0
    THEN <<[similarity_score |-> best_match[1].similarity,
            matched_clarisa_id |-> best_match[1].clarisa_id,
            signals |-> best_match[1].signals,
            match_type |-> best_match[1].match_type,
            explanation |-> best_match[1].explanation]>>
    ELSE << >>

\* ResultOf emitting the scan's best similarity in place of the classifier's
ResultOf_BestSimilarity(rec, classified) ==
    [id |-> rec.id, institution_name |-> rec.partner_name, acronym |-> rec.acronym,
     status |-> classified.status, similarity |-> Round4(best_similarity),
     clarisa_match |-> classified.matched_clarisa_id, reason |-> classified.reason,
     web_page |-> rec.web_page, type |-> rec.institution_type, country |-> rec.country_id]

\* the entry of the results list
ResultOf(rec, classified) ==
    [id |-> rec.id, institution_name |-> rec.partner_name, acronym |-> rec.acronym,
     status |-> classified.status, similarity |-> Round4(classified.similarity),
     clarisa_match |-> classified.matched_clarisa_id, reason |-> classified.reason,
     web_page |-> rec.web_page, type |-> rec.institution_type, country |-> rec.country_id]

\* the record is classified and its result emitted, or its exception reported
ClassifyRecord ==
    /\ pc = "classify"
    /\ \E classified \in {classify_record(record, SimilarityResults)} :
          IF classified.raised # ""
          THEN /\ RecordError(classified.raised)
               /\ results' = results
          ELSE /\ progress' =
                     [progress EXCEPT
                        !.duplicates =
                            IF classified.status = DuplicateStatus.DUPLICATE THEN @ + 1 ELSE @,
                        !.potential_duplicates =
                            IF classified.status = DuplicateStatus.POTENTIAL_DUPLICATE
                            THEN @ + 1 ELSE @]
               /\ audit_logs' = Append(audit_logs, [event_type |-> "duplicate_detection",
                                                    row_id |-> row_id])
               /\ results' = Append(results, ResultOf(record, classified))
    /\ cur' = cur + 1
    /\ pc' = NextRecord
    /\ UNCHANGED <<calls, file, response, records, clarisa_institutions, corpus, database, provider,
                   uploaded_embedding, idx, advanced_result, combined_sim, best_match,
                   best_similarity, embedding_calls>>

\* the response is built, the analysis saved, and 200 answered
Respond ==
    /\ pc = "respond"
    /\ response' = "200"
    /\ pc' = "done"
    /\ UNCHANGED <<calls, file, records, clarisa_institutions, corpus, database, cur, provider,
                   uploaded_embedding, idx, advanced_result, combined_sim, best_match,
                   best_similarity, results, progress, audit_logs, embedding_calls>>

Next ==
    \/ ParseRejected
    \/ ServicesFail
    \/ BeginBatch
    \/ FetchCorpus
    \/ FetchCorpusRaises
    \/ StartRecordRaises
    \/ StartRecord
    \/ ScanEntry
    \/ ClassifyRecord
    \/ Respond

Spec == Init /\ [][Next]_vars

\* ------------------------------------------------------------------------
\* models/institutional_validation.py
\* ------------------------------------------------------------------------

EntityTypeEnum ==
    [MINISTRY |-> "ministry", UNIVERSITY |-> "university",
     RESEARCH_COUNCIL |-> "research_council", RESEARCH_INSTITUTE |-> "research_institute",
     NGO |-> "ngo", GOVERNMENT_AGENCY |-> "government_agency",
     FUNDING_SCHEME |-> "funding_scheme", GRANT_PROGRAM |-> "grant_program",
     BUDGET_LINE |-> "budget_line", RESEARCH_PROGRAM |-> "research_program",
     INTERNAL_FUND |-> "internal_fund", UNKNOWN |-> "unknown"]

DecisionEnum == [APPROVE |-> "approve", REJECT |-> "reject", MERGE |-> "merge", REVIEW |-> "review"]

MatchTypeEnum == [EXACT_NAME |-> "exact_name", FUZZY_NAME |-> "fuzzy_name"]

\* AdvancedMatchConfig: the two fields the decision engine reads
AdvancedMatchConfig(duplicate_threshold, max_matches_to_return) ==
    [duplicate_threshold |-> duplicate_threshold,
     max_matches_to_return |-> max_matches_to_return]

\* InstitutionValidationRequest
InstitutionValidationRequest(id, partner_name, acronym, institution_type) ==
    [id |-> id, partner_name |-> partner_name, acronym |-> acronym, web_page |-> "",
     institution_type |-> institution_type, country_id |-> "", country_name |-> ""]

\* MatchResult of the validation models: one probable duplicate in the registry
RegistryMatch(clarisa_id, clarisa_name, score, match_type, is_probable_duplicate) ==
    [clarisa_id |-> clarisa_id, clarisa_name |-> clarisa_name,
     similarity_score |-> score, match_type |-> match_type,
     is_probable_duplicate |-> is_probable_duplicate]

\* ------------------------------------------------------------------------
\* services/enhanced_normalizer.py: FundingSchemeDetector
\* ------------------------------------------------------------------------

\* a character of the class \w
IsWordChr(c) == IsAlpha(c) \/ InStr(c, Digits) \/ c = "_"

\* re.search of a literal in text, with \b before it (left) and after it (right), and
\* with \s*$ after it (tail), where the pattern has them
Search(text, literal, left, right, tail) ==
    \E i \in 1..(Len(text) - Len(literal) + 1) :
       LET j == i + Len(literal) - 1
       IN /\ SubSeq(text, i, j) = literal
          /\ left => (i = 1 \/ ~IsWordChr(Chr(text, i - 1)))
          /\ right => (j = Len(text) \/ ~IsWordChr(Chr(text, j + 1)))
          /\ tail => rstrip(SubSeq(text, j + 1, Len(text))) = ""

\* FUNDING_SCHEME_KEYWORDS: keyword -> the strings its pattern matches between two \b,
\* a run of whitespace (\s+) written as one space
FUNDING_SCHEME_KEYWORDS ==
    [keyword \in {"program", "fund", "funding_scheme", "research_fund", "grant",
                  "initiative", "call", "mechanism", "facility"} |->
        CASE keyword = "program" -> {"program", "programme"}
          [] keyword = "fund" -> {"fund", "funds"}
          [] keyword = "funding_scheme" -> {"funding scheme"}
          [] keyword = "research_fund" -> {"research fund"}
          [] keyword = "grant" -> {"grant", "grants"}
          [] keyword = "initiative" -> {"initiative", "initiatives"}
          [] keyword = "call" -> {"call for projects"}
          [] keyword = "mechanism" -> {"mechanism", "mechanisms"}
          [] keyword = "facility" -> {"facility"}]

\* FundingSchemeDetector.is_funding_scheme(text): (is_scheme, confidence)
is_funding_scheme(text) ==
    IF text = "" THEN [is_scheme |-> FALSE, confidence |-> 0]
    ELSE LET text_lower == lower(text)
             spaced == CollapseSpaces(text_lower)
             matched_keywords ==
                {keyword \in DOMAIN FUNDING_SCHEME_KEYWORDS :
                    \E literal \in FUNDING_SCHEME_KEYWORDS[keyword] :
                       Search(spaced, literal, TRUE, TRUE, FALSE)}
             exact_patterns ==
                {"funding scheme", "grant program", "research fund", "call for projects"}
             confidence ==
                IF \E p \in exact_patterns : Contains(text_lower, p) THEN Pct(95)
                ELSE Min(Scale, Cardinality(matched_keywords) * Pct(25))
         IN IF matched_keywords = {} THEN [is_scheme |-> FALSE, confidence |-> 0]
            ELSE [is_scheme |-> confidence >= Pct(60), confidence |-> confidence]

\* LANGUAGE_PATTERNS: language -> its accents
LANGUAGE_PATTERNS ==
    [language \in {"spanish", "french", "portuguese"} |->
        CASE language = "spanish" -> {"ción", "ñ", "á", "é", "í", "ó", "ú"}
          [] language = "french" -> {"ç", "é", "è", "ê", "ë", "à"}
          [] language = "portuguese" -> {"ão", "õ", "ç", "é", "á"}]

\* ------------------------------------------------------------------------
\* services/entity_classifier.py
\* ------------------------------------------------------------------------

\* a pattern of the classifier: a literal with its \b and \s*$.  The patterns written in
\* Chinese characters are left out: they match no name over the model's alphabet
Pattern(literal, left, right, tail) ==
    [literal |-> literal, left |-> left, right |-> right, tail |-> tail]

ministry_patterns ==
    {Pattern("ministry of", FALSE, FALSE, FALSE), Pattern("ministerio de", FALSE, FALSE, FALSE),
     Pattern("ministère de", FALSE, FALSE, FALSE), Pattern("ministério de", FALSE, FALSE, FALSE)}

university_patterns ==
    {Pattern("university", TRUE, TRUE, FALSE), Pattern("universidad", TRUE, TRUE, FALSE),
     Pattern("université", TRUE, TRUE, FALSE), Pattern("universidade", TRUE, TRUE, FALSE)}

research_institute_patterns ==
    {Pattern("research institute", FALSE, FALSE, FALSE),
     Pattern("research center", FALSE, FALSE, FALSE),
     Pattern("research centre", FALSE, FALSE, FALSE),
     Pattern("institute of research", FALSE, FALSE, FALSE)}

research_council_patterns ==
    {Pattern("research council", FALSE, FALSE, FALSE),
     Pattern("scientific council", FALSE, FALSE, FALSE),
     Pattern("national council", FALSE, FALSE, FALSE),
     Pattern("consejo de investigación", FALSE, FALSE, FALSE),
     Pattern("conseil de recherche", FALSE, FALSE, FALSE)}

ngo_patterns ==
    {Pattern("ngo", TRUE, TRUE, FALSE), Pattern("non-governmental", TRUE, TRUE, FALSE),
     Pattern("nongovernmental", TRUE, TRUE, FALSE), Pattern("non-profit", FALSE, FALSE, FALSE),
     Pattern("nonprofit", FALSE, FALSE, FALSE), Pattern("foundation", TRUE, TRUE, FALSE)}

government_agency_patterns ==
    {Pattern("government agency", FALSE, FALSE, FALSE),
     Pattern("governmental agency", FALSE, FALSE, FALSE),
     Pattern("department of", FALSE, FALSE, FALSE), Pattern("bureau of", FALSE, FALSE, FALSE),
     Pattern("authority", FALSE, FALSE, FALSE),
     Pattern("government office", FALSE, FALSE, FALSE)}

funding_scheme_patterns ==
    {Pattern("funding scheme", FALSE, FALSE, FALSE),
     Pattern("research fund", FALSE, TRUE, FALSE),
     Pattern("grant program", FALSE, FALSE, FALSE), Pattern("budget line", FALSE, FALSE, FALSE),
     Pattern("research program", FALSE, TRUE, FALSE),
     Pattern("call for projects", FALSE, FALSE, FALSE),
     Pattern("internal fund", FALSE, FALSE, FALSE)}

\* EntityClassifier._pattern_score(text, patterns)
_pattern_score(text, patterns) ==
    IF text = "" \/ patterns = {} THEN 0
    ELSE LET matches == Cardinality({p \in patterns :
                                       Search(text, p.literal, p.left, p.right, p.tail)})
         IN Min(Scale, matches * Pct(30))

\* max(scores, key=scores.get) of classify_entity_type, the first of the highest, and
\* what is returned for it: (entity_type, confidence)
BestEntityType(scores) ==
    LET best == CHOOSE i \in 1..Len(scores) :
                   /\ \A j \in 1..Len(scores) : scores[j].score <= scores[i].score
                   /\ \A j \in 1..(i - 1) : scores[j].score < scores[i].score
    IN IF scores[best].score = 0
       THEN [entity_type |-> EntityTypeEnum.UNKNOWN, confidence |-> 0]
       ELSE [entity_type |-> scores[best].entity_type,
             confidence |-> Min(scores[best].score, Scale)]

\* EntityClassifier.classify_entity_type(text): (entity_type, confidence)
classify_entity_type(text) ==
    IF text = "" THEN [entity_type |-> EntityTypeEnum.UNKNOWN, confidence |-> 0]
    ELSE LET norm_text_lower == lower(EnhancedNormalizer_normalize_text(text, FALSE))
             funding == is_funding_scheme(text)
             funding_scheme_score == _pattern_score(norm_text_lower, funding_scheme_patterns)
         IN \* the dict scores, in the order of its insertion
            BestEntityType(
                <<[entity_type |-> EntityTypeEnum.MINISTRY,
                   score |-> _pattern_score(norm_text_lower, ministry_patterns)],
                  [entity_type |-> EntityTypeEnum.UNIVERSITY,
                   score |-> _pattern_score(norm_text_lower, university_patterns)],
                  [entity_type |-> EntityTypeEnum.RESEARCH_INSTITUTE,
                   score |-> _pattern_score(norm_text_lower, research_institute_patterns)],
                  [entity_type |-> EntityTypeEnum.RESEARCH_COUNCIL,
                   score |-> _pattern_score(norm_text_lower, research_council_patterns)],
                  [entity_type |-> EntityTypeEnum.NGO,
                   score |-> _pattern_score(norm_text_lower, ngo_patterns)],
                  [entity_type |-> EntityTypeEnum.GOVERNMENT_AGENCY,
                   score |-> _pattern_score(norm_text_lower, government_agency_patterns)],
                  [entity_type |-> EntityTypeEnum.FUNDING_SCHEME,
                   score |-> IF funding.is_scheme
                             THEN Max(funding_scheme_score, funding.confidence)
                             ELSE funding_scheme_score]>>)

\* EntityClassifier._identify_flags(name, entity_type, institution_type_hint)
_identify_flags(name, entity_type, institution_type_hint) ==
    LET norm_name == EnhancedNormalizer_normalize_text(name, FALSE)
        detected_langs == {language \in DOMAIN LANGUAGE_PATTERNS :
                             \E accent \in LANGUAGE_PATTERNS[language] : Contains(name, accent)}
        hint_lower == lower(institution_type_hint)
    IN (IF entity_type \in {EntityTypeEnum.FUNDING_SCHEME, EntityTypeEnum.GRANT_PROGRAM}
        THEN {"POTENTIAL_FUNDING_SCHEME"} ELSE {})
       \cup (IF entity_type = EntityTypeEnum.UNKNOWN
             THEN {"UNKNOWN_TYPE_REQUIRES_REVIEW"} ELSE {})
       \cup (IF Cardinality(detected_langs) > 1 THEN {"MULTI_LANGUAGE_NAME"} ELSE {})
       \cup (IF Len(norm_name) < 10 THEN {"SHORT_NAME_MIGHT_BE_ACRONYM"} ELSE {})
       \cup (IF entity_type = EntityTypeEnum.MINISTRY /\ Contains(lower(norm_name), "university")
             THEN {"CONFLICTING_ENTITY_SIGNALS"} ELSE {})
       \cup (IF /\ institution_type_hint # ""
                /\ \/ /\ entity_type = EntityTypeEnum.UNIVERSITY
                      /\ Contains(hint_lower, "ministry")
                   \/ /\ entity_type = EntityTypeEnum.MINISTRY
                      /\ Contains(hint_lower, "university")
             THEN {"TYPE_HINT_MISMATCH"} ELSE {})

\* EntityClassifier.classify_comprehensive(name, acronym, institution_type_hint, country)
classify_comprehensive(name, acronym, institution_type_hint, country) ==
    LET classified == classify_entity_type(name)
        detected_type == classified.entity_type
        funding_types == {EntityTypeEnum.FUNDING_SCHEME, EntityTypeEnum.GRANT_PROGRAM,
                          EntityTypeEnum.BUDGET_LINE, EntityTypeEnum.RESEARCH_PROGRAM,
                          EntityTypeEnum.INTERNAL_FUND}
    IN [detected_type |-> detected_type,
        confidence |-> classified.confidence,
        is_legal_entity |-> detected_type \notin funding_types \cup {EntityTypeEnum.UNKNOWN},
        is_funding_scheme |-> detected_type \in funding_types,
        flags |-> _identify_flags(name, detected_type, institution_type_hint)]

\* ------------------------------------------------------------------------
\* services/fuzzy_matcher.py
\* ------------------------------------------------------------------------

\* FuzzyMatchStrategy, the three strategies of the default weights, in their order
FuzzyMatchStrategy == <<"token_set", "partial", "ratio">>

\* FuzzyMatcher.fuzzy_match_ratio(str1, str2, strategy): its score; answer is the answer
\* of the library (rapidfuzz's fuzz) for the strategy, between 0 and 100
fuzzy_match_ratio(str1, str2, answer) ==
    IF str1 = "" \/ str2 = "" THEN 0
    ELSE IF EnhancedNormalizer_normalize_text(str1, TRUE)
            = EnhancedNormalizer_normalize_text(str2, TRUE)
    THEN Scale
    ELSE answer * (Scale \div 100)

\* the weighted score of multi_strategy_match with the default weights 0.4, 0.3, 0.3,
\* and the strategy of the best score, the first of the highest
WeightedScore(scores) ==
    LET best == CHOOSE i \in 1..3 :
                   /\ \A j \in 1..3 : scores[j] <= scores[i]
                   /\ \A j \in 1..(i - 1) : scores[j] < scores[i]
    IN [score |-> (4 * scores[1] + 3 * scores[2] + 3 * scores[3]) \div 10,
        strategy |-> FuzzyMatchStrategy[best]]

\* FuzzyMatcher.multi_strategy_match(str1, str2) with the default weights; ratios are
\* the library's answers for the three strategies
FuzzyMatcher_multi_strategy_match(str1, str2, ratios) ==
    IF str1 = "" \/ str2 = "" THEN [score |-> 0, strategy |-> "empty_string"]
    ELSE WeightedScore([i \in 1..3 |-> fuzzy_match_ratio(str1, str2, ratios[i])])

\* ------------------------------------------------------------------------
\* services/decision_engine.py
\* ------------------------------------------------------------------------

\* list.sort(key=similarity_score, reverse=True): stable, the highest score first
RECURSIVE SortedByScore(_)
SortedByScore(matches) ==
    IF matches = << >> THEN << >>
    ELSE LET sorted == SortedByScore(SubSeq(matches, 1, Len(matches) - 1))
             last == matches[Len(matches)]
             before == Cardinality({i \in 1..Len(sorted) :
                                      sorted[i].similarity_score >= last.similarity_score})
         IN SubSeq(sorted, 1, before) \o <<last>> \o SubSeq(sorted, before + 1, Len(sorted))

\* the loop of _find_duplicates over the registry, from the entry at i; fuzz[i] is the
\* library's answers for the entry at i
RECURSIVE FoundFrom(_, _, _, _, _)
FoundFrom(normalized_name, clarisa_registry, config, fuzz, i) ==
    IF i > Len(clarisa_registry) THEN << >>
    ELSE LET clarisa_record == clarisa_registry[i]
             clarisa_name == GetStr(clarisa_record, "partner_name")
             \* not clarisa_record.get("id"): no id, or the id 0
             no_id == "id" \notin DOMAIN clarisa_record \/ clarisa_record.id = 0
             clarisa_id == clarisa_record.id
             rest == FoundFrom(normalized_name, clarisa_registry, config, fuzz, i + 1)
             fuzzy == FuzzyMatcher_multi_strategy_match(
                          normalized_name,
                          EnhancedNormalizer_normalize_text(clarisa_name, TRUE), fuzz[i])
         IN IF clarisa_name = "" \/ no_id THEN rest
            ELSE IF EnhancedNormalizer_normalize_text(clarisa_name, TRUE) = normalized_name
            THEN <<RegistryMatch(clarisa_id, clarisa_name, Scale, MatchTypeEnum.EXACT_NAME,
                                 TRUE)>> \o rest
            ELSE IF fuzzy.score >= config.duplicate_threshold
            THEN <<RegistryMatch(clarisa_id, clarisa_name, fuzzy.score,
                                 MatchTypeEnum.FUZZY_NAME,
                                 fuzzy.score >= config.duplicate_threshold)>> \o rest
            ELSE rest

\* DecisionEngine._find_duplicates
_find_duplicates(normalized_name, clarisa_registry, config, fuzz) ==
    LET matches == SortedByScore(FoundFrom(normalized_name, clarisa_registry, config, fuzz, 1))
    IN SubSeq(matches, 1, Min(Len(matches), config.max_matches_to_return))

\* DecisionEngine._make_decision: (decision, confidence_score)
_make_decision(entity_classification, is_potential_funding_scheme, matches) ==
    IF /\ is_potential_funding_scheme
       /\ entity_classification.detected_type = EntityTypeEnum.FUNDING_SCHEME
    THEN [decision |-> DecisionEnum.REJECT, confidence |-> Pct(95)]
    ELSE IF matches # << >> /\ matches[1].is_probable_duplicate
            /\ matches[1].similarity_score >= Pct(95)
    THEN [decision |-> DecisionEnum.REJECT, confidence |-> Pct(95)]
    ELSE IF matches # << >> /\ matches[1].is_probable_duplicate
            /\ matches[1].similarity_score >= Pct(85)
    THEN [decision |-> DecisionEnum.MERGE, confidence |-> Pct(85)]
    ELSE IF entity_classification.detected_type = EntityTypeEnum.UNKNOWN
    THEN [decision |-> DecisionEnum.REVIEW, confidence |-> Pct(50)]
    ELSE IF "TYPE_HINT_MISMATCH" \in entity_classification.flags
    THEN [decision |-> DecisionEnum.REVIEW, confidence |-> Pct(70)]
    ELSE IF entity_classification.is_legal_entity
    THEN IF entity_classification.confidence < Pct(60)
         THEN [decision |-> DecisionEnum.REVIEW,
               confidence |-> entity_classification.confidence]
         ELSE [decision |-> DecisionEnum.APPROVE,
               confidence |-> entity_classification.confidence]
    ELSE [decision |-> DecisionEnum.REVIEW, confidence |-> Pct(50)]

\* the InstitutionValidationResult that validate_institution builds: the fields that
\* the normalized name, the classification, the matches and the decision give
InstitutionValidationResult(request, normalized_name, entity_classification, is_potential_funding_scheme, matches) ==
    LET decided == _make_decision(entity_classification, is_potential_funding_scheme, matches)
    IN [request_id |-> request.id,
        normalized_name |-> normalized_name,
        entity_type_detected |-> entity_classification.detected_type,
        entity_classification |-> entity_classification,
        is_duplicate |-> matches # << >> /\ matches[1].is_probable_duplicate,
        duplicate_match_score |-> IF matches # << >> THEN matches[1].similarity_score ELSE 0,
        matched_clarisa_id |-> IF matches # << >> THEN matches[1].clarisa_id ELSE None,
        match_details |-> matches,
        is_potential_funding_scheme |-> is_potential_funding_scheme,
        decision |-> decided.decision,
        confidence_score |-> decided.confidence]

\* DecisionEngine.validate_institution(request, clarisa_registry) of an engine made with
\* config; fuzz[i] is the library's answers for the entry at i
validate_institution(request, clarisa_registry, config, fuzz) ==
    InstitutionValidationResult(
        request,
        EnhancedNormalizer_normalize_text(request.partner_name, TRUE),
        classify_comprehensive(request.partner_name, request.acronym,
                               request.institution_type, request.country_name),
        classify_entity_type(request.partner_name).entity_type
           \in {EntityTypeEnum.FUNDING_SCHEME, EntityTypeEnum.GRANT_PROGRAM},
        _find_duplicates(EnhancedNormalizer_normalize_text(request.partner_name, TRUE),
                         clarisa_registry, config, fuzz))

\* ------------------------------------------------------------------------
\* Functions called on their own
\* ------------------------------------------------------------------------

\* the scores a candidate is given: the thresholds of the tiers and values around them
CandidateScores ==
    {0, Pct(50), Pct(70), Pct(71), Pct(72) - 1, Pct(72), Pct(80), Pct(85) - 1, Pct(85),
     Pct(90) - 1, Pct(90), Pct(97), Pct(100)}

\* the signals a candidate is given
CandidateSignals ==
    { [DetectionSignals EXCEPT !.exact_name_match = s[1], !.core_name_match = s[2],
                               !.variant_name_match = s[3], !.exact_url_match = s[4],
                               !.acronym_similarity = a] :
        s \in BOOLEAN \X BOOLEAN \X BOOLEAN \X BOOLEAN,
        a \in {0, Pct(70), Pct(71), Pct(80), Pct(90) - 1, Pct(90), Pct(97)} }

\* the values of similarity_results: None, or the dict of a candidate
SimilarityResultsValues ==
    { << >> } \cup
    { <<[similarity_score |-> sim, matched_clarisa_id |-> "c1", signals |-> signals,
         match_type |-> "unknown", explanation |-> ""]>> :
        sim \in CandidateScores, signals \in CandidateSignals }

\* the institution names two of which are matched
MatchNames ==
    {"", "World Fish Center", " world  fish CENTER", "World Fish Centre",
     "Cornell University", "Cornel University", "Rice Wheat", "Rice Wheat Hub",
     "Rice Wheat Global", "Global Rice Wheat Alliance"}

\* the acronyms they come with
MatchAcronyms == {"", "WFC", "CU"}

\* the institution names an acronym is matched against
AcronymNames ==
    {"", "Wageningen University and Research (WUR)", "Wageningen University",
     "Cornell University", "World Fish Center", "Fish", "Foo ( )", "Madagascar [gas]"}

\* the acronyms matched against them
Acronyms == {"", "WUR", "WU", "COR", "CORNELL", "WFC", "WorldFish", "GAS", "-", "TIL"}

\* the names whose keywords are compared
KeywordNames ==
    {"", "Rice Wheat", "Rice Wheat Hub", "Global Rice Wheat Alliance",
     "International Research Center", "International Research Institute of Rice",
     "The Center for Wheat and Rice"}

\* the most words min_overlap asks for
MaxOverlap == 3

\* the longest text normalized on its own
MaxText == 3

\* a lower-case and an upper-case letter, whitespace, punctuation and a combining mark
TextAlphabet == {"a", "A", " ", "-", ".", CombiningAcute}

\* the strings of at most n characters of the alphabet
RECURSIVE TextsUpTo(_)
TextsUpTo(n) ==
    IF n = 0 THEN {""}
    ELSE TextsUpTo(n - 1) \cup {t \o c : t \in TextsUpTo(n - 1), c \in TextAlphabet}

Texts == TextsUpTo(MaxText)

\* web pages: a scheme or none, www. or not, a host, and then nothing, a trailing slash,
\* a path, a query or a fragment
UrlParts ==
    [scheme : {"", "http://", "https://"},
     www : {"", "www."},
     host : {"a.org", "b.org"},
     rest : {"", "/", "/about", "/about/", "/?q=1", "#top"}]

UrlOf(parts) == parts.scheme \o parts.www \o parts.host \o parts.rest

Urls == {UrlOf(parts) : parts \in UrlParts}

\* the requests validated: a government agency named by two patterns, a university with a
\* ministry for its type hint, a research fund, and a name of no known kind
ValidationRequests ==
    { InstitutionValidationRequest("v1", "Department of Water Authority", "", ""),
      InstitutionValidationRequest("v2", "Cornell University", "CU", "Ministry"),
      InstitutionValidationRequest("v3", "Rice Research Fund", "", "NGO"),
      InstitutionValidationRequest("v4", "Fish", "", "") }

\* the entries of the registry handed to the engine: another name, the name of the first
\* request written otherwise, and an entry without a name
ValidationRegistryRows ==
    { [id |-> 1, partner_name |-> "Water Authority", country_id |-> "1"],
      [id |-> 2, partner_name |-> " department of  WATER authority.", country_id |-> "2"],
      [id |-> 3, partner_name |-> None, country_id |-> "1"] }

\* AdvancedMatchConfig(duplicate_threshold=..., max_matches_to_return=...), the threshold
\* between 0.0 and 1.0 as its validator demands; 0.85 and 5 are the defaults
ValidationConfigs ==
    { AdvancedMatchConfig(threshold, most) :
        threshold \in {0, Pct(75), Pct(85)}, most \in {0, 1, 5} }

\* what fuzz.token_set_ratio, fuzz.partial_ratio and fuzz.ratio of the library answer for
\* two names that are not equal
LibraryRatios == {<<50, 50, 50>>, <<80, 80, 80>>, <<90, 90, 90>>, <<100, 100, 90>>}

\* the calls of validate_institution: a request, a registry, the configuration of the
\* engine, and the library's answers for each entry of the registry
ValidationCalls ==
    UNION { { <<request, clarisa_registry, config, fuzz>> :
                fuzz \in [1..Len(clarisa_registry) -> LibraryRatios] } :
            request \in ValidationRequests,
            clarisa_registry \in SeqsOf(ValidationRegistryRows, 0, MaxRegistry),
            config \in ValidationConfigs }

\* vectors for the calls of similarity_score: none, zero vectors, and vectors of one, two
\* and three components whose magnitudes are whole numbers
SimilarityVectors ==
    {<< >>, <<0>>, <<2>>, <<0, 0>>, <<3, 4>>, <<4, 3>>, <<-3, 4>>, <<0, 0, 0>>, <<2, 2, 1>>}

\* the values of min_overlap: a number of words, one or more
MinOverlaps == 1..MaxOverlap

\* the calls made: <<function, arguments>>
FunctionCalls ==
    { <<"classify_record", <<Row("u1", "World Fish Center", "", "", "NGO", "1"), sr>>>> :
        sr \in SimilarityResultsValues }
    \cup { <<"multi_strategy_match", args>> :
             args \in MatchNames \X MatchAcronyms \X MatchNames \X MatchAcronyms }
    \cup { <<"acronym_match_score", args>> : args \in AcronymNames \X Acronyms }
    \cup { <<"keyword_overlap_score", args>> :
             args \in KeywordNames \X KeywordNames \X MinOverlaps }
    \cup { <<"similarity_score", args>> : args \in SimilarityVectors \X SimilarityVectors }
    \cup { <<"normalize_text", <<text>>>> : text \in Texts }
    \cup { <<"normalize_url", <<url>>>> : url \in Urls }
    \cup { <<"validate_institution", args>> : args \in ValidationCalls }
    \cup { <<"EnhancedNormalizer.normalize_text", args>> : args \in Texts \X BOOLEAN }

\* no upload is in progress, and one call is about to be made
FunctionInit ==
    /\ file = << >>
    /\ pc = "parse"
    /\ response = ""
    /\ records = << >>
    /\ clarisa_institutions = << >>
    /\ corpus = ""
    /\ database = << >>
    /\ cur = 0
    /\ provider = NoProvider
    /\ uploaded_embedding = << >>
    /\ idx = 0
    /\ advanced_result = NoResult
    /\ combined_sim = 0
    /\ best_match = << >>
    /\ best_similarity = 0
    /\ results = << >>
    /\ progress = ProcessingProgress(0)
    /\ audit_logs = << >>
    /\ embedding_calls = 0
    /\ call \in FunctionCalls
    /\ returned = << >>

\* the function of the call is the one named and has not returned
Calling(function) == call[1] = function /\ returned = << >>

\* detector.classify_record(uploaded_record, similarity_results) returns or raises
classify_record_Call ==
    /\ Calling("classify_record")
    /\ returned' = <<classify_record(call[2][1], call[2][2])>>
    /\ UNCHANGED <<handler, call>>

\* multi_strategy_match(uploaded_name, uploaded_acronym, clarisa_name, clarisa_acronym)
multi_strategy_match_Call ==
    /\ Calling("multi_strategy_match")
    /\ returned' = <<multi_strategy_match(call[2][1], call[2][2], call[2][3], call[2][4])>>
    /\ UNCHANGED <<handler, call>>

\* acronym_match_score(institution_name, acronym)
acronym_match_score_Call ==
    /\ Calling("acronym_match_score")
    /\ returned' = <<acronym_match_score(call[2][1], call[2][2])>>
    /\ UNCHANGED <<handler, call>>

\* keyword_overlap_score(name1, name2, min_overlap)
keyword_overlap_score_Call ==
    /\ Calling("keyword_overlap_score")
    /\ returned' = <<keyword_overlap_score(call[2][1], call[2][2], call[2][3])>>
    /\ UNCHANGED <<handler, call>>

\* embedding_service.similarity_score(embedding1, embedding2)
similarity_score_Call ==
    /\ Calling("similarity_score")
    /\ \E rounding \in Roundings :
          returned' = <<similarity_score(call[2][1], call[2][2], rounding)>>
    /\ UNCHANGED <<handler, call>>

\* normalization.normalize_text(text)
normalize_text_Call ==
    /\ Calling("normalize_text")
    /\ returned' = <<normalize_text(call[2][1])>>
    /\ UNCHANGED <<handler, call>>

\* EnhancedNormalizer.normalize_text(text, remove_diacritics)
EnhancedNormalizer_normalize_text_Call ==
    /\ Calling("EnhancedNormalizer.normalize_text")
    /\ returned' = <<EnhancedNormalizer_normalize_text(call[2][1], call[2][2])>>
    /\ UNCHANGED <<handler, call>>

\* normalization.normalize_url(url)
normalize_url_Call ==
    /\ Calling("normalize_url")
    /\ returned' = <<normalize_url(call[2][1])>>
    /\ UNCHANGED <<handler, call>>

\* DecisionEngine(config).validate_institution(request, clarisa_registry)
validate_institution_Call ==
    /\ Calling("validate_institution")
    /\ returned' = <<validate_institution(call[2][1], call[2][2], call[2][3], call[2][4])>>
    /\ UNCHANGED <<handler, call>>

FunctionNext ==
    \/ classify_record_Call
    \/ multi_strategy_match_Call
    \/ acronym_match_score_Call
    \/ keyword_overlap_score_Call
    \/ similarity_score_Call
    \/ normalize_text_Call
    \/ normalize_url_Call
    \/ validate_institution_Call
    \/ EnhancedNormalizer_normalize_text_Call

FunctionSpec == FunctionInit /\ [][FunctionNext]_vars

\* ------------------------------------------------------------------------

\* Properties
\* ------------------------------------------------------------------------

\* the record is being scanned or classified
InRecord == pc \in {"scan", "classify"}

\* the loop has just emitted the result of the record before cur
LastClassified ==
    /\ pc \in {"record", "respond"}
    /\ cur > 1
    /\ results # << >>
    /\ audit_logs[Len(audit_logs)].event_type = "duplicate_detection"

LastResult == results[Len(results)]

\* the result is conclusive: an exact match, or an acronym match of confidence >= 0.90
Conclusive(result) ==
    /\ result.match_type \in {"exact", "acronym"}
    /\ result.confidence >= Pct(90)

\* C1: during the scan of one record, a fuzzy, keyword or semantic candidate replaces
\* the retained best candidate only if its score strictly exceeds the score of the
\* candidate retained so far; otherwise the retained candidate is left unchanged.
C1_ReplacedOnlyByBetter ==
    [][(/\ pc = "scan"
        /\ best_match # << >>
        /\ best_match' # best_match
        /\ best_match'[1].match_type \in {"fuzzy", "keyword", "semantic"})
       => best_match'[1].similarity > best_match[1].similarity]_vars

\* a weaker fuzzy match has replaced a stronger retained candidate of another entry
C1_WeakerRetained ==
    /\ InRecord
    /\ idx > 2
    /\ best_match # << >>
    /\ best_match[1].match_type = "fuzzy"
    /\ best_match[1].similarity < best_similarity

\* C2: an exact match, or an acronym match of confidence >= 0.90, stops the scan at
\* its entry: no later entry is examined and the entry is the candidate handed to the
\* classifier.  A weaker acronym match, a fuzzy match or a keyword match never stops the
\* scan: it ends only after the last entry.
C2_ConclusiveStopsScan ==
    /\ (pc = "scan" /\ idx > 1) => ~Conclusive(advanced_result)
    /\ (pc = "classify" /\ Conclusive(advanced_result)) =>
          /\ idx \in DOMAIN clarisa_institutions
          /\ advanced_result = advanced_multi_strategy_match(record, clarisa_institutions[idx])
          /\ best_match # << >>
          /\ best_match[1].clarisa_id = Get(clarisa_institutions[idx], "clarisa_id")
          /\ best_match[1].similarity = advanced_result.confidence
          /\ best_match[1].match_type = advanced_result.match_type
          /\ SimilarityResults # << >>
          /\ SimilarityResults[1].matched_clarisa_id = best_match[1].clarisa_id
    /\ (pc = "classify" /\ ~Conclusive(advanced_result)) =>
          idx = Len(clarisa_institutions) + 1

\* the scan has stopped at a conclusive entry with an entry left unexamined
C2_StoppedEarly ==
    /\ pc = "classify"
    /\ Conclusive(advanced_result)
    /\ idx < Len(clarisa_institutions)

\* the retained candidate has no name signal, an acronym similarity below 0.90 and a
\* similarity s with 0.72 <= s < 0.85
Tier4Candidate ==
    /\ best_match # << >>
    /\ ~best_match[1].signals.exact_name_match
    /\ ~best_match[1].signals.core_name_match
    /\ ~best_match[1].signals.variant_name_match
    /\ best_match[1].signals.acronym_similarity < Pct(90)
    /\ best_match[1].similarity >= Pct(72)
    /\ best_match[1].similarity < Pct(85)

\* C3: a retained candidate with no name signal, acronym similarity below 0.90 and
\* similarity s, 0.72 <= s < 0.85, is classified POTENTIAL_DUPLICATE with similarity s
\* and the candidate's reference id, and that is the record's entry in the results.
C3_PotentialDuplicate ==
    [][(pc = "classify" /\ Tier4Candidate)
       => /\ Len(results') = Len(results) + 1
          /\ results'[Len(results')].status = DuplicateStatus.POTENTIAL_DUPLICATE
          /\ results'[Len(results')].similarity = Round4(best_match[1].similarity)
          /\ results'[Len(results')].clarisa_match = best_match[1].clarisa_id]_vars

\* a record whose only signal is a cosine similarity of 0.80 has ended in the error list
C3_SemanticOnlyRaised ==
    /\ pc \in {"record", "respond"}
    /\ cur > 1
    /\ Tier4Candidate
    /\ best_match[1].match_type = "semantic"
    /\ best_match[1].similarity = Pct(80)
    /\ progress.errors # << >>
    /\ progress.errors[Len(progress.errors)] =
          [row |-> records[cur - 1].id, error |-> "AttributeError"]

\* C4: a classification of status NO_MATCH has no matched reference id and similarity
\* 0.0, as classify_record returns it and as the results carry it, whatever candidate
\* was retained.
C4_NoMatchIsEmpty ==
    /\ \A i \in DOMAIN results :
          results[i].status = DuplicateStatus.NO_MATCH
             => results[i].clarisa_match = None /\ results[i].similarity = 0
    /\ pc = "classify" =>
          \E c \in {classify_record(record, SimilarityResults)} :
             c.status = DuplicateStatus.NO_MATCH
                => c.matched_clarisa_id = None /\ c.similarity = 0

\* a record with a retained candidate has been emitted as NO_MATCH
C4_NoMatchWithCandidate ==
    /\ LastClassified
    /\ LastResult.status = DuplicateStatus.NO_MATCH
    /\ best_match # << >>
    /\ best_match[1].similarity > 0

\* the registry holds an entry whose normalized name is the record's
HasExactEntry ==
    \E i \in DOMAIN clarisa_institutions :
       normalize_text(record.partner_name)
          = normalize_text(clarisa_institutions[i].partner_name)

\* C5, as the code has it: a record whose scan is over, and whose registry holds an entry
\* of the same normalized name, is classified DUPLICATE with similarity >= 0.90; the
\* similarity is >= 0.95 unless the scan stopped at an earlier entry on an acronym match.
C5_ExactEntryIsDuplicate ==
    (pc = "classify" /\ HasExactEntry) =>
       \E c \in {classify_record(record, SimilarityResults)} :
          /\ c.raised = ""
          /\ c.status = DuplicateStatus.DUPLICATE
          /\ c.similarity >= Pct(90)
          /\ c.similarity < Pct(95) => /\ advanced_result.match_type = "acronym"
                                       /\ idx < Len(clarisa_institutions)

\* C5, as the specification has it: a record whose registry holds an entry of the same
\* normalized name is classified DUPLICATE with similarity >= 0.95, whatever the other
\* entries and their order.
C5_ExactEntryAtLeast95 ==
    (pc = "classify" /\ HasExactEntry) =>
       \E c \in {classify_record(record, SimilarityResults)} :
          /\ c.raised = ""
          /\ c.status = DuplicateStatus.DUPLICATE
          /\ c.similarity >= Pct(95)

\* the scan stopped before the entry of the same name, on an acronym match below 0.95
C5_StoppedBeforeExactEntry ==
    /\ pc = "classify"
    /\ HasExactEntry
    /\ advanced_result.match_type = "acronym"
    /\ best_match # << >>
    /\ best_match[1].similarity < Pct(95)

\* C6: a result of status DUPLICATE or POTENTIAL_DUPLICATE carries a matched reference
\* id that is not None and is the reference id of the registry entry that gave the
\* retained candidate, for every registry, the fallback registry included.
C6_MatchCarriesReferenceId ==
    /\ \A i \in DOMAIN results :
          results[i].status \in {DuplicateStatus.DUPLICATE,
                                 DuplicateStatus.POTENTIAL_DUPLICATE}
             => results[i].clarisa_match # None
    /\ (LastClassified /\ LastResult.status # DuplicateStatus.NO_MATCH) =>
          /\ best_match # << >>
          /\ LastResult.clarisa_match = best_match[1].clarisa_id

\* a record scanned against the fallback registry has been emitted as DUPLICATE
C6_FallbackDuplicate ==
    /\ LastClassified
    /\ corpus = "raised"
    /\ LastResult.status = DuplicateStatus.DUPLICATE

\* the rows of the sheet that lack a required cell
MalformedRows ==
    {i \in DOMAIN file : \E f \in Range(REQUIRED_COLUMNS) : file[i][f] = ""}

Count(seq, Test(_)) == Cardinality({i \in DOMAIN seq : Test(seq[i])})

\* C8: an exception raised for one record is caught at that record: the record is
\* added to the error list, the later records are processed, and at the end every
\* record is in exactly one of the results and the error list
\* (processed = total = |results| + |errors|).
C8_ErrorsStayPerRecord ==
    /\ pc \in {"record", "respond"} =>
          /\ progress.processed = cur - 1
          /\ Len(results) + Len(progress.errors) = cur - 1
    /\ pc = "respond" => cur = Len(records) + 1
    /\ (pc = "done" /\ response = "200") =>
          /\ progress.processed = progress.total
          /\ progress.total = Len(records)
          /\ Len(results) + Len(progress.errors) = progress.total
          /\ \A k \in DOMAIN records :
                Count(results, LAMBDA r : r.id = records[k].id)
                   + Count(progress.errors, LAMBDA e : e.row = records[k].id)
                = Count(records, LAMBDA r : r.id = records[k].id)

\* the first record of a batch raised and the second one got its result
C8_LaterRecordProcessed ==
    /\ pc = "done"
    /\ response = "200"
    /\ Len(records) = 2
    /\ records[1].id # records[2].id
    /\ Len(progress.errors) = 1
    /\ progress.errors[1].row = records[1].id
    /\ Len(results) = 1
    /\ results[1].id = records[2].id

C10_SymbolicOnlyWithoutEmbedding ==
    (InRecord /\ (provider.raises \/ provider.embedding = << >>)) =>
       /\ combined_sim = 0
       /\ best_match # << >> => best_match[1].match_type # "semantic"
       /\ pc = "classify" => classify_record(record, SimilarityResults).raised = ""

\* the provider raised and a semantic candidate has been retained for the record
C10_SemanticAfterFailure ==
    /\ InRecord
    /\ provider.raises
    /\ combined_sim > 0
    /\ best_match # << >>
    /\ best_match[1].match_type = "semantic"

\* the records that failed on int(country_id), before their embedding was asked for
FailedBeforeEmbedding == Count(progress.errors, LAMBDA e : e.error = "ValueError")

\* C11, as the code has it: generate_embedding is called once for every record that
\* reaches the scan, before its first registry entry is compared, and not again while
\* the registry is scanned: the calls of a batch are the records processed less those
\* that failed on their country_id before the call, whatever the size of the registry.
C11_OneEmbeddingPerScannedRecord ==
    /\ pc \in {"parse", "fetch"} => embedding_calls = 0
    /\ InRecord => embedding_calls = cur - FailedBeforeEmbedding
    /\ pc \in {"record", "respond"} =>
          embedding_calls = progress.processed - FailedBeforeEmbedding
    /\ (pc = "done" /\ response = "200") =>
          embedding_calls = Len(records) - FailedBeforeEmbedding

\* C11, as the specification has it: the embedding calls of a batch are as many as the
\* records processed.
C11_CallsEqualProcessed ==
    (pc = "done" /\ response = "200") => embedding_calls = progress.processed

\* one record has been scanned against a registry of two entries with one call
C11_OneCallTwoEntries ==
    /\ pc = "done"
    /\ response = "200"
    /\ Len(records) = 1
    /\ Len(clarisa_institutions) = 2
    /\ idx = 3
    /\ embedding_calls = 1


\* ------------------------------------------------------------------------
\* C12
\* ------------------------------------------------------------------------

\* the reference ids of the registry entries whose name is missing or empty
NamelessReferences ==
    { Get(clarisa_institutions[i], "clarisa_id") :
        i \in { j \in 1..Len(clarisa_institutions) :
                  GetStr(clarisa_institutions[j], "partner_name") = "" } }

\* C12: a registry entry whose name is missing or empty is skipped: it is never the
\* candidate retained by the scan, nor the matched reference of an emitted result.
C12_NamelessEntrySkipped ==
    /\ (InRecord /\ best_match # << >>) => best_match[1].clarisa_id \notin NamelessReferences
    /\ \A i \in 1..Len(results) : results[i].clarisa_match \notin NamelessReferences

\* C12: a nameless entry does not stop the scan or the batch: the entries after it are
\* compared, and the records after the one that matched it are processed.
C12_NamelessEntryDoesNotStop ==
    /\ (pc = "classify" /\ idx <= Len(clarisa_institutions))
          => GetStr(clarisa_institutions[idx], "partner_name") # ""
    /\ (pc = "done" /\ response = "200") => progress.processed = Len(records)

\* a record is reported DUPLICATE of the nameless registry entry, through the first
\* letters of its own name, and the batch has ended
C12_NamelessEntryMatched ==
    /\ pc = "done" /\ response = "200"
    /\ \E i \in 1..Len(results) :
          /\ results[i].clarisa_match \in NamelessReferences
          /\ results[i].status = DuplicateStatus.DUPLICATE
          /\ results[i].institution_name = "World Agroforestry Centre"


\* ------------------------------------------------------------------------
\* C13
\* ------------------------------------------------------------------------

\* the rows of the table clarisa_institutions that have no embedding vector
WithoutEmbedding ==
    IF database = << >> THEN {}
    ELSE { inst \in database[1].institutions :
             \A e \in database[1].embeddings : e.institution_id # inst.id }

\* the record just classified has the name of a registry entry without embedding
NamedLikeEntryWithoutEmbedding ==
    /\ LastClassified
    /\ \E inst \in WithoutEmbedding :
          normalize_text(LastResult.institution_name) = normalize_text(inst.name)

\* C13: a registry entry with no embedding vector still takes part in symbolic matching:
\* a record that has exactly its name is reported DUPLICATE, never NO_MATCH.
C13_SymbolicWithoutRegistryEmbedding ==
    NamedLikeEntryWithoutEmbedding => LastResult.status = DuplicateStatus.DUPLICATE

\* a record named exactly like a registry entry that has no embedding is reported
\* NO_MATCH: the entry was never compared
C13_EntryWithoutEmbeddingMissed ==
    /\ NamedLikeEntryWithoutEmbedding
    /\ LastResult.status = DuplicateStatus.NO_MATCH
    /\ LastResult.institution_name = "Aquatic Agency"


\* ------------------------------------------------------------------------
\* C14
\* ------------------------------------------------------------------------

WithCountry(rec, c) == [rec EXCEPT !.country_id = c]

\* the country ids an uploaded record is given in the second run
UploadedCountryIds == {"1", "2", "MX"}

\* those int() accepts
NumericCountryIds == {c \in UploadedCountryIds : IsInt(c)}

\* the country ids a registry entry is given in the second run
RegistryCountryIds == {"1", "2", "MX", None}

\* the handler reports the record as an error before its scan: int(country_id) raises
FailsOnCountry(rec) == ~IsInt(rec.country_id)

\* whether the record is scanned at all does not depend on its country id
StartIgnoresCountry(ids) ==
    (pc = "record" /\ record.country_id \in ids) =>
       \A c1 \in ids : FailsOnCountry(WithCountry(record, c1)) = FailsOnCountry(record)


\* the signals without the explanatory same_country
Gating(signals) == [signals EXCEPT !.same_country = FALSE]

\* the candidate handed to the classifier, with same_country set to sc
SimilarityResultsWithCountry(sc) ==
    IF SimilarityResults = << >> THEN << >>
    ELSE <<[SimilarityResults[1] EXCEPT !.signals.same_country = sc]>>

\* the entry the scan has just compared the record with
ComparedEntry ==
    clarisa_institutions[IF pc = "classify" /\ idx <= Len(clarisa_institutions)
                         THEN idx ELSE idx - 1]

\* the similarities the scan can compute for that entry
ComparedSimilarities ==
    { IF uploaded_embedding # << >> /\ GetEmbedding(ComparedEntry) # << >>
      THEN similarity_score(uploaded_embedding, GetEmbedding(ComparedEntry), rounding)
      ELSE 0 : rounding \in Roundings }

\* another country id than c
OtherCountry(c) == IF c = "1" THEN "2" ELSE "1"

\* the comparison of the record with a registry entry does not depend on their country
\* ids, the embedding vectors being equal: the symbolic result is the one the scan got,
\* and the rule-based signals differ in same_country only
ScanIgnoresCountry(ids) ==
    (pc \in {"scan", "classify"} /\ advanced_result # NoResult) =>
       /\ advanced_multi_strategy_match(
              WithCountry(record, OtherCountry(record.country_id)),
              WithCountry(ComparedEntry, OtherCountry(ComparedEntry.country_id)))
            = advanced_result
       /\ \A sim \in ComparedSimilarities :
          \E rule \in {check_rule_based_signals(record, ComparedEntry, sim)} :
          \A c1 \in ids, c2 \in RegistryCountryIds :
             LET other == check_rule_based_signals(WithCountry(record, c1),
                                                   WithCountry(ComparedEntry, c2), sim)
             IN /\ other.is_candidate = rule.is_candidate
                /\ Gating(other.signals) = Gating(rule.signals)

\* the classification of the retained candidate does not depend on the country ids
ClassificationIgnoresCountry(ids) ==
    pc = "classify" =>
       \E classified \in {classify_record(record, SimilarityResults)} :
       \A c1 \in ids, sc \in BOOLEAN :
          LET other == classify_record(WithCountry(record, c1),
                                       SimilarityResultsWithCountry(sc))
          IN /\ other.raised = classified.raised
             /\ other.status = classified.status
             /\ other.similarity = classified.similarity
             /\ other.matched_clarisa_id = classified.matched_clarisa_id

Returned(function) == call # << >> /\ call[1] = function /\ returned # << >>

\* classify_record has returned for a candidate
ClassifiedCandidate == Returned("classify_record") /\ call[2][2] # << >>

\* one of the name signals of the candidate is set
NameSignal(signals) ==
    signals.exact_name_match \/ signals.core_name_match \/ signals.variant_name_match

\* classify_record answered DUPLICATE of the candidate with this similarity
DuplicateWith(out, candidate, similarity) ==
    /\ out.raised = ""
    /\ out.status = DuplicateStatus.DUPLICATE
    /\ out.similarity = similarity
    /\ out.matched_clarisa_id = candidate.matched_clarisa_id

UrlAndAcronymCandidate ==
    /\ ClassifiedCandidate
    /\ ~NameSignal(call[2][2][1].signals)
    /\ call[2][2][1].signals.acronym_similarity < Pct(90)
    /\ call[2][2][1].similarity_score < Pct(72)
    /\ call[2][2][1].signals.exact_url_match
    /\ call[2][2][1].signals.acronym_similarity > Pct(70)

\* C16: a candidate that matches no earlier tier and has an exact URL match together with
\* an acronym similarity > 0.70 is classified POTENTIAL_DUPLICATE, with similarity
\* max(acronym_similarity, 0.75) and the candidate's reference id.
C16_UrlAndAcronymIsPotential ==
    UrlAndAcronymCandidate =>
       /\ returned[1].raised = ""
       /\ returned[1].status = DuplicateStatus.POTENTIAL_DUPLICATE
       /\ returned[1].similarity = Max(call[2][2][1].signals.acronym_similarity, Pct(75))
       /\ returned[1].matched_clarisa_id = call[2][2][1].matched_clarisa_id

\* the classification of such a candidate ended in an AttributeError
C16_UrlAndAcronymRaises ==
    /\ UrlAndAcronymCandidate
    /\ call[2][2][1].signals.acronym_similarity = Pct(80)
    /\ returned[1].raised = "AttributeError"


\* ------------------------------------------------------------------------
\* C17
\* ------------------------------------------------------------------------

\* multi_strategy_match returned this type with this confidence
Matched(type, confidence) ==
    returned[1].match_type = type /\ returned[1].confidence = confidence

\* C17: multi_strategy_match returns the first step whose condition holds, in the order
\* exact (confidence 1.0), acronym, fuzzy (ratio >= 0.85), keyword (overlap and Jaccard
\* >= 0.70), combined (fuzzy >= 0.75 or Jaccard >= 0.60, and 0.6 * fuzzy + 0.4 * Jaccard
\* >= 0.72, reported as fuzzy); it returns no_match with confidence 0.0 exactly when no
\* step's condition holds.
C17_FirstStepDecides ==
    Returned("multi_strategy_match") =>
       LET name1 == call[2][1]
           name2 == call[2][3]
           exact == normalize_text(name1) = normalize_text(name2)
           acronym == acronym_strategy(name1, call[2][2], name2, call[2][4])
           byAcronym == acronym.match_type = "acronym"
           ratio_ == fuzzy_match_score(name1, name2, Pct(75)).score
           fuzzy == ratio_ >= Pct(85)
           overlap == keyword_overlap_score(name1, name2, 2)
           keyword == overlap.match /\ overlap.score >= Pct(70)
           weighted == (ratio_ * 6 + overlap.score * 4) \div 10
           combined == (ratio_ >= Pct(75) \/ overlap.score >= Pct(60)) /\ weighted >= Pct(72)
       IN /\ exact => Matched("exact", Scale)
          /\ (~exact /\ byAcronym) => Matched("acronym", acronym.confidence)
          /\ (~exact /\ ~byAcronym /\ fuzzy) => Matched("fuzzy", ratio_)
          /\ (~exact /\ ~byAcronym /\ ~fuzzy /\ keyword) => Matched("keyword", overlap.score)
          /\ (~exact /\ ~byAcronym /\ ~fuzzy /\ ~keyword /\ combined)
               => Matched("fuzzy", weighted)
          /\ Matched("no_match", 0)
               <=> ~(exact \/ byAcronym \/ fuzzy \/ keyword \/ combined)
          /\ returned[1].match_type = "no_match" => returned[1].confidence = 0

\* two names that are not equal, whose first letters are the uploaded acronym and whose
\* ratio is above 0.85, have been matched: the acronym step decided
C17_AcronymBeforeFuzzy ==
    /\ Returned("multi_strategy_match")
    /\ call[2] = <<"World Fish Centre", "WFC", "World Fish Center", "CU">>
    /\ fuzzy_match_score(call[2][1], call[2][3], Pct(75)).score >= Pct(85)
    /\ Matched("acronym", Pct(85))


\* ------------------------------------------------------------------------
\* C18
\* ------------------------------------------------------------------------

\* the normalized acronym is the content of a parenthesis or bracket pair of the name
Bracketed(institution_name, acronym) ==
    LET matches == findall_bracketed(normalize_text(institution_name))
    IN \E m \in DOMAIN matches : normalize_acronym(acronym) = strip(lower(matches[m]))

\* the normalized acronym is a key of the knowledge base
KnownKey(acronym) ==
    \E k \in DOMAIN ACRONYM_DATABASE : ACRONYM_DATABASE[k][1] = normalize_acronym(acronym)

\* the expansions of that key
KeyExpansions(acronym) ==
    UNION { Range(ACRONYM_DATABASE[k][2]) :
              k \in { i \in DOMAIN ACRONYM_DATABASE :
                        ACRONYM_DATABASE[i][1] = normalize_acronym(acronym) } }

\* the acronym is a known key and one of its expansions fuzzy-matches the name
KnownExpansion(institution_name, acronym) ==
    /\ KnownKey(acronym)
    /\ \E e \in KeyExpansions(acronym) :
          fuzzy_match_score(normalize_text(institution_name), e, Pct(80)).match

\* the acronym is the first letters of the words of the name, which has two words or more
FirstLetters(institution_name, acronym) ==
    LET words == split(normalize_text(institution_name))
    IN /\ Len(words) >= 2
       /\ Len(normalize_acronym(acronym)) >= 2
       /\ first_letters(words) = upper(normalize_acronym(acronym))

\* C18: acronym_match_score returns a match only if the normalized acronym is the content
\* of a parenthesis/bracket pair of the name, or is a known key of the knowledge base
\* whose expansion fuzzy-matches the name, or is the first-letter acronym of a name of two
\* words or more; otherwise it returns (False, 0.0).
C18_MatchOnlyOnEvidence ==
    Returned("acronym_match_score") =>
       LET evidence == \/ Bracketed(call[2][1], call[2][2])
                       \/ KnownExpansion(call[2][1], call[2][2])
                       \/ FirstLetters(call[2][1], call[2][2])
       IN /\ returned[1].match => evidence
          /\ ~evidence => returned[1] = [match |-> FALSE, score |-> 0]

\* an acronym that is no key of the knowledge base, only a part of the key "cornell", and
\* is neither bracketed in the name nor its first letters, has matched the name
C18_PartOfKeyMatched ==
    /\ Returned("acronym_match_score")
    /\ call[2] = <<"Cornell University", "COR">>
    /\ ~KnownKey("COR")
    /\ returned[1] = [match |-> TRUE, score |-> Pct(92)]

\* ------------------------------------------------------------------------
\* C19
\* ------------------------------------------------------------------------

\* some expansion the knowledge base gives for the acronym fuzzy-matches the name
KnowledgeBaseMatch(institution_name, acronym) ==
    \E e \in get_acronym_expansions(upper(normalize_acronym(acronym))) :
       fuzzy_match_score(normalize_text(institution_name), e, Pct(80)).match

\* C19: acronym_match_score follows a strict priority: a bracketed exact match gives 0.95,
\* else a knowledge-base match gives 0.92, else a first-letter match gives 0.85, else
\* (False, 0.0); the confidence is one of 0.95, 0.92, 0.85, 0.0 and the boolean is true
\* exactly when the confidence is above 0.
C19_StrictPriority ==
    Returned("acronym_match_score") =>
       LET name == call[2][1]
           acronym == call[2][2]
           given == name # "" /\ acronym # ""
           bracketed == given /\ Bracketed(name, acronym)
           known == given /\ KnowledgeBaseMatch(name, acronym)
           letters == given /\ FirstLetters(name, acronym)
           out == returned[1]
       IN /\ bracketed => out.score = Pct(95)
          /\ (~bracketed /\ known) => out.score = Pct(92)
          /\ (~bracketed /\ ~known /\ letters) => out.score = Pct(85)
          /\ (~bracketed /\ ~known /\ ~letters) => out.score = 0
          /\ out.score \in {Pct(95), Pct(92), Pct(85), 0}
          /\ out.match <=> out.score > 0

\* an acronym bracketed in a name that also matches its expansion, and an acronym matched
\* by the knowledge base that is also the first letters of the name: the earlier rule won
C19_EarlierRuleWon ==
    /\ Returned("acronym_match_score")
    /\ \/ /\ call[2] = <<"Wageningen University and Research (WUR)", "WUR">>
          /\ KnowledgeBaseMatch(call[2][1], call[2][2])
          /\ returned[1].score = Pct(95)
       \/ /\ call[2] = <<"Wageningen University", "WU">>
          /\ FirstLetters(call[2][1], call[2][2])
          /\ returned[1].score = Pct(92)


\* ------------------------------------------------------------------------
\* C20
\* ------------------------------------------------------------------------

\* the words of a name
Words(name) == Range(split(normalize_text(name)))

\* C20: keyword_overlap_score(a, b, min_overlap), for a min_overlap of one word or more,
\* removes the stop words from both word sets and returns (True, |A n B| / |A u B|)
\* exactly when the intersection has min_overlap words or more, else (False, 0.0); two
\* names that share only stop words never give a keyword match.
C20_JaccardOfMeaningfulWords ==
    Returned("keyword_overlap_score") =>
       LET A == Words(call[2][1]) \ stop_words
           B == Words(call[2][2]) \ stop_words
           min_overlap == call[2][3]
       IN /\ IF Cardinality(A \cap B) >= min_overlap
             THEN returned[1] = [match |-> TRUE,
                                 score |-> (Cardinality(A \cap B) * Scale)
                                           \div Cardinality(A \cup B)]
             ELSE returned[1] = [match |-> FALSE, score |-> 0]
          /\ (Words(call[2][1]) \cap Words(call[2][2])) \subseteq stop_words
               => ~returned[1].match

\* two names that share two words, both stop words, were compared with min_overlap 2 and
\* gave no match
C20_StopWordsDoNotCount ==
    /\ Returned("keyword_overlap_score")
    /\ call[2] = <<"International Research Center",
                   "International Research Institute of Rice", 2>>
    /\ Cardinality(Words(call[2][1]) \cap Words(call[2][2])) = 2
    /\ returned[1] = [match |-> FALSE, score |-> 0]


\* ------------------------------------------------------------------------
\* C21
\* ------------------------------------------------------------------------

\* C21: the similarity of every retained candidate and of every emitted result lies in
\* [0, 1], for every registry and every pair of embedding vectors, those of negative
\* cosine included.
C21_SimilarityInUnitInterval ==
    /\ (InRecord /\ best_match # << >>) => best_match[1].similarity \in 0..Scale
    /\ \A i \in 1..Len(results) : results[i].similarity \in 0..Scale

\* what holds of C21: no retained candidate has a negative similarity, and the similarity
\* of every emitted result, which is rounded to four places, lies in [0, 1]
C21_NeverNegativeAndResultsInRange ==
    /\ (InRecord /\ best_match # << >>) => best_match[1].similarity > 0
    /\ \A i \in 1..Len(results) : results[i].similarity \in 0..Scale

\* a negative cosine has been computed for the entry just compared and retained nothing
C21_NegativeCosineComputed ==
    /\ pc = "classify"
    /\ combined_sim < 0
    /\ best_match = << >>

\* the semantic candidate retained for the record has a similarity above 1.0: its vector
\* is parallel to the record's and the quotient was rounded upwards
C21_RetainedAboveOne ==
    /\ pc = "classify"
    /\ best_match # << >>
    /\ best_match[1].match_type = "semantic"
    /\ best_match[1].similarity > Scale


\* ------------------------------------------------------------------------
\* C22
\* ------------------------------------------------------------------------

\* the accumulator of the scan: the retained candidate, the best similarity, and whether
\* the scan has stopped
Accumulator(match, similarity, stopped) ==
    [best_match |-> match, best_similarity |-> similarity, stopped |-> stopped]

\* the accumulator after the record rec, alone, is compared with one registry entry
ComparedAlone(rec, entry, embedding, acc, rounding) ==
    LET Outcome(result, sim, rule) ==
            LET matched == RetainSymbolic(result, acc.best_match)
                symbolic == IF matched
                            THEN <<Candidate(Get(entry, "clarisa_id"), result.confidence,
                                             SymbolicSignals(result), result.explanation,
                                             result.match_type)>>
                            ELSE acc.best_match
                stops == matched /\ StopsScan(result)
                symbolic_best == IF matched /\ ~stops /\ result.confidence > acc.best_similarity
                                 THEN result.confidence ELSE acc.best_similarity
                semantic == ~stops /\ (symbolic = << >> \/ symbolic[1].similarity < Pct(85))
                takes == semantic /\ rule.is_candidate /\ sim > symbolic_best
            IN Accumulator(IF takes
                           THEN <<Candidate(Get(entry, "clarisa_id"), sim,
                                            [rule.signals EXCEPT
                                               !.semantic_combined_similarity = sim],
                                            "", "semantic")>>
                           ELSE symbolic,
                           IF takes THEN sim ELSE symbolic_best,
                           stops)
        sim == IF embedding # << >> /\ GetEmbedding(entry) # << >>
               THEN similarity_score(embedding, GetEmbedding(entry), rounding)
               ELSE 0
    IN Outcome(advanced_multi_strategy_match(rec, entry), sim,
               check_rule_based_signals(rec, entry, sim))

\* the accumulators the scan of rec alone can end with, from the accumulator acc at entry i
RECURSIVE ScannedAlone(_, _, _, _, _)
ScannedAlone(rec, registry, embedding, i, acc) ==
    IF i > Len(registry) \/ acc.stopped THEN {acc}
    ELSE UNION { ScannedAlone(rec, registry, embedding, i + 1, next) :
                   next \in { ComparedAlone(rec, registry[i], embedding, acc, rounding) :
                                rounding \in Roundings } }

\* the retained candidates the record rec can end with when it is the only record of a
\* batch scanned against the registry, its embedding being the given one
RetainedAlone(rec, registry, embedding) ==
    { [best_match |-> acc.best_match, best_similarity |-> acc.best_similarity] :
        acc \in ScannedAlone(rec, registry, embedding, 1, Accumulator(<< >>, 0, FALSE)) }

\* C22: the result of a record does not depend on the other records of the batch: the
\* registry is the one fetched, and whatever records were processed before it, the
\* candidate retained for the record, and so the status, similarity and matched id
\* emitted for it, are those of the record processed alone.
C22_RecordsAreIndependent ==
    /\ (corpus = "raised" /\ pc # "done") => clarisa_institutions = MOCK_CLARISA_INSTITUTIONS
    /\ (corpus \in {"fetched", "failed"})
          => clarisa_institutions = get_clarisa_institutions(database[1])
    /\ pc = "classify"
          => [best_match |-> best_match, best_similarity |-> best_similarity]
                \in RetainedAlone(record, clarisa_institutions, uploaded_embedding)
    /\ LastClassified
          => \E classified \in {classify_record(records[cur - 1], SimilarityResults)} :
                /\ LastResult.status = classified.status
                /\ LastResult.similarity = Round4(classified.similarity)
                /\ LastResult.clarisa_match = classified.matched_clarisa_id

\* the second record of a batch has been classified after a first record that retained
\* another candidate
C22_SecondAfterAnother ==
    /\ pc = "respond"
    /\ cur = 3
    /\ Len(results) = 2
    /\ results[1].status = DuplicateStatus.DUPLICATE
    /\ results[2].status = DuplicateStatus.DUPLICATE
    /\ results[1].clarisa_match # results[2].clarisa_match


\* ------------------------------------------------------------------------
\* C23
\* ------------------------------------------------------------------------

\* the magnitude of a vector, as similarity_score computes it
Magnitude(embedding) == sqrt(dot(embedding, embedding))

\* a pair of vectors for which similarity_score does not reach its division
Degenerate(embedding1, embedding2) ==
    \/ embedding1 = << >>
    \/ embedding2 = << >>
    \/ Len(embedding1) # Len(embedding2)
    \/ Magnitude(embedding1) = 0
    \/ Magnitude(embedding2) = 0

\* C23: similarity_score is total: it returns 0.0 when either vector is empty or absent,
\* when the lengths differ, or when either vector has zero magnitude; for every other
\* pair the divisor of its quotient is not zero, so that it raises for no pair.
C23_SimilarityScoreTotal ==
    /\ Returned("similarity_score") =>
          /\ Degenerate(call[2][1], call[2][2]) => returned[1] = 0
          /\ ~Degenerate(call[2][1], call[2][2])
                => /\ Magnitude(call[2][1]) * Magnitude(call[2][2]) # 0
                   /\ returned[1] \in (0 - Scale)..(Scale + Ulp)
    /\ (call # << >> /\ call[1] = "similarity_score" /\ returned = << >>)
          => ENABLED similarity_score_Call

\* similarity_score has returned 0.0 for two vectors of different lengths whose common
\* components are not orthogonal
C23_DifferentLengthsScoreZero ==
    /\ Returned("similarity_score")
    /\ call[2][1] = <<2>>
    /\ call[2][2] = <<3, 4>>
    /\ returned[1] = 0


\* ------------------------------------------------------------------------
\* C24
\* ------------------------------------------------------------------------

\* C24: normalize_text is idempotent: normalizing a normalized string changes nothing,
\* for normalization.normalize_text and for EnhancedNormalizer.normalize_text, on
\* strings with whitespace, punctuation and combining marks.
C24_NormalizeTextIdempotent ==
    /\ Returned("normalize_text") => normalize_text(returned[1]) = returned[1]
    /\ Returned("EnhancedNormalizer.normalize_text")
          => EnhancedNormalizer_normalize_text(returned[1], call[2][2]) = returned[1]

\* EnhancedNormalizer.normalize_text is idempotent, and normalization.normalize_text is
\* idempotent on the strings in which no combining mark stands next to whitespace at an
\* end of the stripped string
C24_IdempotentButForEdgeMarks ==
    /\ Returned("EnhancedNormalizer.normalize_text")
          => EnhancedNormalizer_normalize_text(returned[1], call[2][2]) = returned[1]
    /\ Returned("normalize_text")
          => \/ normalize_text(returned[1]) = returned[1]
             \/ \E stripped \in {strip(call[2][1])} :
                   \/ IsMn(Chr(stripped, 1))
                   \/ IsMn(Chr(stripped, Len(stripped)))

\* normalization.normalize_text has returned a string that ends in a space, which a
\* second normalization strips: the space stood before a combining mark
C24_SpaceLeftBeforeMark ==
    /\ Returned("normalize_text")
    /\ call[2][1] = "a " \o CombiningAcute
    /\ returned[1] = "a "
    /\ normalize_text(returned[1]) = "a"


\* ------------------------------------------------------------------------
\* C25
\* ------------------------------------------------------------------------

\* the parts a web page of the model is written with
PartsOf(url) == CHOOSE parts \in UrlParts : UrlOf(parts) = url

\* the web pages that differ from url in their trailing slash only
SamePage(rest1, rest2) ==
    \/ rest1 = rest2
    \/ {rest1, rest2} = {"", "/"}
    \/ {rest1, rest2} = {"/about", "/about/"}

AcronymStepReached == normalize_text(call[2][1]) # normalize_text(call[2][3])

\* the equal-acronym rule of the acronym step decides the call
EqualAcronymDecides ==
    LET norm_uploaded_acr == upper(normalize_acronym(call[2][2]))
        norm_clarisa_acr == upper(normalize_acronym(call[2][4]))
        known == \E k \in DOMAIN ACRONYM_DATABASE :
                     upper(ACRONYM_DATABASE[k][1]) = norm_uploaded_acr
        names == fuzzy_match_score(call[2][1], call[2][3], Pct(70))
    IN /\ call[2][2] # ""
       /\ call[2][4] # ""
       /\ norm_uploaded_acr = norm_clarisa_acr
       /\ known
       /\ (names.match \/ names.score > Pct(65))

\* the uploaded acronym matches the reference name
UploadedAcronymMatches ==
    call[2][2] # "" /\ acronym_match_score(call[2][3], call[2][2]).match

\* the reference acronym matches the uploaded name
ReferenceAcronymMatches ==
    call[2][4] # "" /\ acronym_match_score(call[2][1], call[2][4]).match

\* C26: in the acronym step of multi_strategy_match, when the equal-acronym rule does not
\* decide, each direction of the acronym matcher is checked whenever its acronym is
\* present, also when the other record has no acronym: a direction that matches decides.
C26_EachDirectionChecked ==
    (Returned("multi_strategy_match") /\ AcronymStepReached /\ ~EqualAcronymDecides) =>
       /\ UploadedAcronymMatches
             => Matched("acronym", acronym_match_score(call[2][3], call[2][2]).score)
       /\ (~UploadedAcronymMatches /\ ReferenceAcronymMatches)
             => Matched("acronym", acronym_match_score(call[2][1], call[2][4]).score)

\* the directions are checked when both acronyms are present, and no acronym match is
\* returned when either is absent
C26_DirectionsNeedBothAcronyms ==
    (Returned("multi_strategy_match") /\ AcronymStepReached /\ ~EqualAcronymDecides) =>
       /\ (call[2][2] # "" /\ call[2][4] # "") =>
             /\ UploadedAcronymMatches
                   => Matched("acronym", acronym_match_score(call[2][3], call[2][2]).score)
             /\ (~UploadedAcronymMatches /\ ReferenceAcronymMatches)
                   => Matched("acronym", acronym_match_score(call[2][1], call[2][4]).score)
       /\ (call[2][2] = "" \/ call[2][4] = "") => returned[1].match_type # "acronym"

\* the uploaded acronym is the first letters of the reference name, the reference has no
\* acronym, and multi_strategy_match has returned no match
C26_DirectionSkipped ==
    /\ Returned("multi_strategy_match")
    /\ call[2] = <<"Rice Wheat", "WFC", "World Fish Center", "">>
    /\ acronym_match_score("World Fish Center", "WFC").match
    /\ returned[1].match_type = "no_match"


\* ------------------------------------------------------------------------
\* C27
\* ------------------------------------------------------------------------

\* the registry entries the scan of the last record examined
Examined == 1..Min(idx, Len(clarisa_institutions))

\* the entry at i yields, for rec, a symbolic match of confidence 0.85 or more
StrongSymbolic(rec, i) ==
    \E result \in {advanced_multi_strategy_match(rec, clarisa_institutions[i])} :
       result.match_type # "no_match" /\ result.confidence >= Pct(85)

\* the classification of the last record raised, and the record has no result
LastRaised ==
    /\ pc \in {"record", "respond"}
    /\ cur > 1
    /\ progress.errors # << >>
    /\ progress.errors[Len(progress.errors)] =
          [row |-> records[cur - 1].id, error |-> "AttributeError"]

\* C27: if some registry entry examined during the scan yields a symbolic match with
\* confidence >= 0.85, the record's final status is DUPLICATE, whatever entries follow.
C27_StrongSymbolicIsDuplicate ==
    ((LastClassified \/ LastRaised)
       /\ \E i \in Examined : StrongSymbolic(records[cur - 1], i))
          => (LastClassified /\ LastResult.status = DuplicateStatus.DUPLICATE)

\* a strong symbolic match that is the last match of the scan gives DUPLICATE
C27_LastStrongSymbolicIsDuplicate ==
    LastClassified =>
       ((/\ best_match # << >>
         /\ best_match[1].match_type # "semantic"
         /\ best_match[1].similarity >= Pct(85))
           => LastResult.status = DuplicateStatus.DUPLICATE)

\* an entry gave an acronym match of confidence 0.85, the next entry gave a keyword match
\* of confidence 0.75 that replaced it, and the classification of the record raised
C27_StrongMatchOverwritten ==
    /\ LastRaised
    /\ ~LastClassified
    /\ Len(clarisa_institutions) = 2
    /\ StrongSymbolic(records[cur - 1], 1)
    /\ ~StrongSymbolic(records[cur - 1], 2)
    /\ best_match # << >>
    /\ best_match[1].clarisa_id = Get(clarisa_institutions[2], "clarisa_id")
    /\ best_match[1].match_type = "keyword"
    /\ best_match[1].similarity = Pct(75)


\* ------------------------------------------------------------------------
\* C28
\* ------------------------------------------------------------------------

\* the candidate retained for the last record was reported by multi_strategy_match
SymbolicRetained ==
    /\ LastClassified \/ LastRaised
    /\ best_match # << >>
    /\ best_match[1].match_type \in {"exact", "acronym", "fuzzy", "keyword"}

\* C28: if the candidate retained at the end of the scan was reported by
\* multi_strategy_match as a match, the record is not classified NO_MATCH: its status is
\* DUPLICATE or POTENTIAL_DUPLICATE and its matched id is the candidate's reference id.
C28_SymbolicCandidateClassified ==
    SymbolicRetained =>
       /\ LastClassified
       /\ LastResult.status \in {DuplicateStatus.DUPLICATE, DuplicateStatus.POTENTIAL_DUPLICATE}
       /\ LastResult.clarisa_match = best_match[1].clarisa_id

\* a retained candidate that is an exact, an acronym or a fuzzy match, or a keyword match
\* of confidence 0.85 or more, gives DUPLICATE with the candidate's reference id; a
\* keyword match of lower confidence gives no result (0.72 and more) or NO_MATCH
C28_KeywordBelowStrongNotClassified ==
    SymbolicRetained =>
       IF best_match[1].match_type = "keyword" /\ best_match[1].similarity < Pct(85)
       THEN IF best_match[1].similarity >= Pct(72)
            THEN LastRaised /\ ~LastClassified
            ELSE LastClassified /\ LastResult.status = DuplicateStatus.NO_MATCH
       ELSE /\ LastClassified
            /\ LastResult.status = DuplicateStatus.DUPLICATE
            /\ LastResult.clarisa_match = best_match[1].clarisa_id

\* the only candidate of a record is a keyword match of confidence 0.75, and the record
\* has no result: its classification raised
C28_KeywordCandidateRaised ==
    /\ SymbolicRetained
    /\ LastRaised
    /\ ~LastClassified
    /\ records[cur - 1].id = "u4"
    /\ Len(clarisa_institutions) = 1
    /\ best_match[1].match_type = "keyword"
    /\ best_match[1].similarity = Pct(75)
    /\ results = << >>


\* ------------------------------------------------------------------------
\* C29
\* ------------------------------------------------------------------------

\* the kinds of symbolic evidence set in the signals of a candidate
SymbolicEvidence(signals) ==
    {kind \in {"exact_name_match", "variant_name_match", "acronym_similarity",
               "keyword_match_score"} :
        \/ kind = "exact_name_match" /\ signals.exact_name_match
        \/ kind = "variant_name_match" /\ signals.variant_name_match
        \/ kind = "acronym_similarity" /\ signals.acronym_similarity > 0
        \/ kind = "keyword_match_score" /\ signals.keyword_match_score > 0}

\* classify_record decides the candidate in its tier of a URL match with an acronym
\* similarity above 0.70
UrlAndAcronymTierDecides(candidate) ==
    /\ ~candidate.signals.exact_name_match
    /\ ~candidate.signals.core_name_match
    /\ ~candidate.signals.variant_name_match
    /\ candidate.signals.acronym_similarity < Pct(90)
    /\ candidate.similarity < Pct(72)
    /\ candidate.signals.exact_url_match
    /\ candidate.signals.acronym_similarity > Pct(70)

\* C29: in every candidate retained by the scan at most one kind of evidence is set: a
\* symbolic candidate sets exactly one of exact_name_match, variant_name_match,
\* acronym_similarity and keyword_match_score, the one of its match type, and never
\* exact_url_match; a semantic or URL candidate has acronym_similarity = 0 and no symbolic
\* evidence.  So no retained candidate has exact_url_match with acronym_similarity > 0.70,
\* and the URL-plus-acronym tier of classify_record decides no record.
C29_OneKindOfEvidence ==
    best_match # << >> =>
       LET candidate == best_match[1]
           signals == candidate.signals
       IN /\ candidate.match_type \in {"exact", "acronym", "fuzzy", "keyword", "semantic"}
          /\ candidate.match_type = "exact"
                => SymbolicEvidence(signals) = {"exact_name_match"}
          /\ candidate.match_type = "acronym"
                => SymbolicEvidence(signals) = {"acronym_similarity"}
          /\ candidate.match_type = "fuzzy"
                => SymbolicEvidence(signals) = {"variant_name_match"}
          /\ candidate.match_type = "keyword"
                => SymbolicEvidence(signals) = {"keyword_match_score"}
          /\ candidate.match_type # "semantic" => ~signals.exact_url_match
          /\ candidate.match_type = "semantic"
                => signals.acronym_similarity = 0 /\ SymbolicEvidence(signals) = {}
          /\ ~(signals.exact_url_match /\ signals.acronym_similarity > Pct(70))
          /\ ~UrlAndAcronymTierDecides(candidate)

\* the scan has retained a candidate for its URL alone, and classify_record decides it in
\* no tier
C29_UrlCandidateRetained ==
    /\ pc = "classify"
    /\ best_match # << >>
    /\ best_match[1].match_type = "semantic"
    /\ best_match[1].signals.exact_url_match
    /\ best_match[1].similarity < Pct(70)
    /\ classify_record(record, SimilarityResults).status = DuplicateStatus.NO_MATCH

\* ------------------------------------------------------------------------
\* C30
\* ------------------------------------------------------------------------

\* C30: for every configuration with thresholds in [0,1] and every registry, whenever
\* validate_institution reports is_duplicate = true, its decision is not APPROVE.
C30_DuplicateNeverApproved ==
    Returned("validate_institution") =>
       (returned[1].is_duplicate => returned[1].decision # DecisionEnum.APPROVE)

\* a reported duplicate is rejected from a score of 0.95 and merged from 0.85, whatever
\* the configured threshold; below 0.85 it is decided as a record without a match is; and
\* with the default threshold of 0.85, or a higher one, no duplicate is approved
C30_DuplicateDecidedFromFixedScores ==
    Returned("validate_institution") =>
       LET result == returned[1]
           config == call[2][3]
           funding == result.entity_type_detected = EntityTypeEnum.FUNDING_SCHEME
       IN /\ (result.is_duplicate /\ ~funding /\ result.duplicate_match_score >= Pct(95))
                => result.decision = DecisionEnum.REJECT
          /\ (result.is_duplicate /\ ~funding /\ result.duplicate_match_score >= Pct(85)
                /\ result.duplicate_match_score < Pct(95))
                => result.decision = DecisionEnum.MERGE
          /\ (result.is_duplicate /\ result.duplicate_match_score < Pct(85))
                => result.decision
                      = validate_institution(call[2][1], << >>, config, << >>).decision
          /\ (result.is_duplicate /\ config.duplicate_threshold >= Pct(85))
                => result.decision # DecisionEnum.APPROVE
          /\ result.is_duplicate
                => result.duplicate_match_score >= config.duplicate_threshold

\* with a duplicate threshold of 0.75 a registry entry of score 0.80 is reported as the
\* duplicate of a government agency, and the decision is APPROVE
C30_DuplicateApproved ==
    /\ Returned("validate_institution")
    /\ call[2][3].duplicate_threshold = Pct(75)
    /\ returned[1].is_duplicate
    /\ returned[1].duplicate_match_score = Pct(80)
    /\ returned[1].entity_type_detected = EntityTypeEnum.GOVERNMENT_AGENCY
    /\ returned[1].decision = DecisionEnum.APPROVE

====
